---- MODULE Spec2Model ----
(***************************************************************************)
(* SignGlove unified collector (src/ser.py): the serial producer thread,   *)
(* the bounded sample queue, the episode recorder with its two persisted   *)
(* formats, and the progress store reconciled against the files on disk.   *)
(*                                                                         *)
(* Granularity: one action is the code one thread runs between two points  *)
(* where it waits (an input() prompt, the end of a producer iteration).    *)
(***************************************************************************)
EXTENDS Integers, Sequences, FiniteSets, TLC

\* ------------------------------------------------------------------ sizes
\* all_classes (34 labels in the source) and episode_types (5 keys), cut down
\* to one class with two episode types: two (class, type) pairs
Classes == {"A"}
Types == {"1", "2"}
\* program constants, scaled down from 80, 12 and 1000. With 1000 > 80 the
\* queue, emptied at every start, is never full while an episode is open; the
\* capacity is taken below the episode length here so that the full branch of
\* the offer is reached while recording as well.
samples_per_episode == 3
episodes_per_type == 2
QueueMaxsize == 2
\* bounds of the model
MaxLines == 3
MaxClock == 1
MaxOldFiles == 2
MaxSamples == 5

\* producer threads that can exist at once in the model
Threads == {1, 2}

None == "none"
Cancel == ""
NoReading == 0
\* None, where the value is otherwise a number or a Reading: <<x>> is x
Absent == <<>>
\* no line read yet
NoLine == [prefix |-> "none", parts |-> <<>>]
\* MIN_SLEEP_TIME, in tenths of a millisecond
MIN_SLEEP_TIME == 10

VARIABLES
  running,               \* a collector object exists (main() is running)
  launched,              \* main() has been started
  mainpc,                \* where the main thread waits: keys, class_select, type_select, confirm
  main_class,            \* class_name argument of the start_episode the main thread is in
  serial_open,           \* self.serial_port and self.serial_port.is_open
  stop_event,            \* self.stop_event
  serial_thread,         \* self.serial_thread: the producer started last, 0 for None
  worker,                \* each producer thread: dead, loop, input
  worker_class,          \* class_name argument of the start_episode a producer is in
  data_queue,            \* self.data_queue
  total_samples,         \* buffer_stats['total_samples']
  dropped_samples,       \* buffer_stats['dropped_samples']
  max_queue_usage,       \* buffer_stats['max_queue_usage'], as the peak qsize
  collecting,            \* self.collecting
  current_class,         \* self.current_class
  current_episode_type,  \* self.current_episode_type
  episode_data,          \* self.episode_data
  initial_posture_reference, \* self.initial_posture_reference
  collection_stats,      \* self.collection_stats
  stats_flat,            \* collection_stats is defaultdict(int), as reset leaves it
  session_stats,         \* self.session_stats
  h5_files,              \* the *.h5 files under data_dir: name -> readings
  csv_files,             \* the *.csv files under data_dir: name -> readings
  progress_file,         \* collection_progress.json
  cache_read,            \* what load_collection_progress found in that file
  now,                   \* wall clock, in the seconds the file names carry
  nlines,                \* readings the device has sent so far
  raw,                   \* the line readline() returned last, split into its fields
  last_arduino_ms,       \* last_arduino_ms of _data_reception_worker
  prev_reading,          \* self._prev_reading: the Reading built last
  sample_rate_history,   \* buffer_stats['sample_rate_history']
  current_sleep_time,    \* buffer_stats['current_sleep_time']
  response,              \* the line test_communication read last on the port opened last
  polls,                 \* what its polls found, and one more would have
  connect_result,        \* what connect_arduino returned last: none, ok, failed
  pending,               \* the reading a producer holds between lines 460 and 461
  h5_rows,               \* the arrays save_episode_data has built (lines 654-675)
  shown                  \* the progress report printed last, where the reports are followed

memvars == <<mainpc, main_class, serial_open, stop_event, serial_thread, worker,
             worker_class, data_queue, total_samples, dropped_samples,
             max_queue_usage, collecting, current_class,
             current_episode_type, episode_data, initial_posture_reference,
             collection_stats, stats_flat, session_stats>>
diskvars == <<h5_files, csv_files, progress_file>>
\* the producer's line-level state and its rate bookkeeping
linevars == <<raw, last_arduino_ms, prev_reading>>
ratevars == <<sample_rate_history, current_sleep_time>>
handvars == <<response, polls, connect_result>>
\* the state between the statements of an append and of a finalization
racevars == <<pending, h5_rows>>
\* what the progress reports print
reportvars == <<shown>>
auxvars == <<linevars, ratevars, handvars, racevars, reportvars>>
vars == <<running, launched, memvars, diskvars, cache_read, now, nlines, auxvars>>

\* ---------------------------------------------------------------- helpers
\* no report has been printed
NoReport == <<>>

Max(a, b) == IF a >= b THEN a ELSE b

RECURSIVE SumOver(_, _)
SumOver(f, S) ==
  IF S = {} THEN 0
  ELSE LET x == CHOOSE y \in S : TRUE IN f[x] + SumOver(f, S \ {x})

EmptyStats == [c \in {} |-> 0]

\* defaultdict read: the count of (c, t), 0 when the key is absent
Count(stats, c, t) ==
  IF c \in DOMAIN stats /\ t \in DOMAIN stats[c] THEN stats[c][t] ELSE 0

\* sum(self.collection_stats[c].values())
ClassTotal(stats, c) ==
  IF c \in DOMAIN stats THEN SumOver(stats[c], DOMAIN stats[c]) ELSE 0

\* sum(sum(v.values()) for v in self.collection_stats.values())
GrandTotal(stats) ==
  SumOver([c \in DOMAIN stats |-> ClassTotal(stats, c)], DOMAIN stats)

\* collection_stats[c][t] for every t of ts: a defaultdict read inserts the key
Touch(stats, c, ts) ==
  [k \in DOMAIN stats \cup {c} |->
     IF k = c
     THEN [t \in (IF c \in DOMAIN stats THEN DOMAIN stats[c] ELSE {}) \cup ts |->
             Count(stats, c, t)]
     ELSE stats[k]]

\* collection_stats[c][t] += 1
Increment(stats, c, t) ==
  LET s == Touch(stats, c, {t})
  IN [s EXCEPT ![c] = [s[c] EXCEPT ![t] = s[c][t] + 1]]

\* episode file names: episode_<timestamp>_<class>_<type>.<ext> in <class>/<type>/
FileName(ts, c, t) == <<ts, c, t>>
FilesOf(files, c, t) == {n \in DOMAIN files : n[2] = c /\ n[3] = t}
WriteFile(files, name, data) ==
  [n \in DOMAIN files \cup {name} |-> IF n = name THEN data ELSE files[n]]
NoFiles == [n \in {} |-> <<>>]

\* ---------------------------------------------------------- progress file
AbsentFile == [kind |-> "absent", collection_stats |-> EmptyStats,
               session_stats |-> [c \in Classes |-> 0], total_episodes |-> 0]
CorruptFile == [kind |-> "corrupt", collection_stats |-> EmptyStats,
                session_stats |-> [c \in Classes |-> 0], total_episodes |-> 0]

\* a save whose total_episodes counts the classes instead of the episodes
ProgressDataPerClass(stats, sess) ==
  [kind |-> "valid", collection_stats |-> stats, session_stats |-> sess,
   total_episodes |-> Cardinality(DOMAIN stats)]

\* what save_collection_progress writes
ProgressData(stats, sess) ==
  [kind |-> "valid", collection_stats |-> stats, session_stats |-> sess,
   total_episodes |-> GrandTotal(stats)]

\* save_collection_progress: dict(v) raises on the int values a flat map holds,
\* the except branch swallows it and the file stays as it was
save_collection_progress(file, stats, flat, sess) ==
  IF flat /\ DOMAIN stats # {} THEN file ELSE ProgressData(stats, sess)

\* ------------------------------------------------------------------- load
\* a scan that counts the H5 files only
real_count_h5(h5, csv, c, t) == Cardinality(FilesOf(h5, c, t))

\* max(h5_count, csv_count) of one <class>/<type> directory
real_count(h5, csv, c, t) ==
  Max(Cardinality(FilesOf(h5, c, t)), Cardinality(FilesOf(csv, c, t)))

\* the scan: real_stats holds only the pairs with real_count > 0
real_stats(h5, csv) ==
  LET ts(c) == {t \in Types : real_count(h5, csv, c, t) > 0}
  IN [c \in {k \in Classes : ts(k) # {}} |->
        [t \in ts(c) |-> real_count(h5, csv, c, t)]]

\* the cached map: the file's collection_stats, empty when there is no file
cached_stats(file) ==
  IF file.kind = "valid" THEN file.collection_stats ELSE EmptyStats

\* collection_stats after load_collection_progress: a file that cannot be read
\* raises inside the try, and the except branch leaves an empty map, unscanned
loaded_stats(file, h5, csv) ==
  IF file.kind = "corrupt" THEN EmptyStats
  ELSE IF real_stats(h5, csv) # cached_stats(file) THEN real_stats(h5, csv)
  ELSE cached_stats(file)

\* the progress file after load_collection_progress
loaded_file(file, h5, csv) ==
  IF file.kind = "corrupt" THEN file
  ELSE IF real_stats(h5, csv) # cached_stats(file)
       THEN save_collection_progress(file, real_stats(h5, csv), FALSE,
                                     [c \in Classes |-> 0])
  ELSE file

\* ------------------------------------------------------------ construction
\* the fields __init__ sets before it loads the progress
FreshMemory ==
  /\ mainpc' = "keys"
  /\ main_class' = None
  /\ serial_open' = FALSE
  /\ stop_event' = FALSE
  /\ serial_thread' = 0
  /\ worker' = [w \in Threads |-> "dead"]
  /\ worker_class' = [w \in Threads |-> None]
  /\ data_queue' = <<>>
  /\ total_samples' = 0
  /\ dropped_samples' = 0
  /\ max_queue_usage' = 0
  /\ collecting' = FALSE
  /\ current_class' = None
  /\ current_episode_type' = None
  /\ episode_data' = <<>>
  /\ initial_posture_reference' = NoReading
  /\ stats_flat' = FALSE
  /\ session_stats' = [c \in Classes |-> 0]
  /\ raw' = NoLine
  /\ last_arduino_ms' = Absent
  /\ prev_reading' = Absent
  /\ sample_rate_history' = <<>>
  /\ current_sleep_time' = MIN_SLEEP_TIME
  /\ response' = Absent
  /\ polls' = <<>>
  /\ connect_result' = "none"
  /\ pending' = Absent
  /\ h5_rows' = <<>>
  /\ shown' = NoReport

\* main(): SignGloveUnifiedCollector() runs __init__, which ends in load_collection_progress
Launch ==
  /\ ~running /\ ~launched
  /\ running' = TRUE
  /\ launched' = TRUE
  /\ FreshMemory
  /\ collection_stats' = loaded_stats(progress_file, h5_files, csv_files)
  /\ progress_file' = loaded_file(progress_file, h5_files, csv_files)
  /\ cache_read' = progress_file
  /\ UNCHANGED <<h5_files, csv_files, now, nlines>>

\* the process ends (sys.exit, or an exception leaving run()): the daemon
\* producer dies with it and only the disk is left
ProcessEnds ==
  /\ running' = FALSE
  /\ launched' = TRUE
  /\ FreshMemory
  /\ collection_stats' = EmptyStats
  /\ cache_read' = AbsentFile

\* ----------------------------------------------------------------- queue
\* data_queue.full()
QueueFull(q) == Len(q) >= QueueMaxsize

\* a queue that makes room by dropping its oldest reading
OfferDropOldest(q, r) == IF QueueFull(q) THEN Append(Tail(q), r) ELSE Append(q, r)

\* lines 446-457: put the reading unless the queue is full
Offer(q, r) == IF QueueFull(q) THEN q ELSE Append(q, r)

\* a buffer fed only with what the queue took
BufferedIfQueued(data, r, full) == IF full THEN data ELSE Append(data, r)

\* line 461: self.episode_data.append(reading), whatever the queue did
Buffered(data, r, full) == Append(data, r)

\* a threshold that is one reading late
ThresholdLate(n) == n > samples_per_episode

\* line 464: len(self.episode_data) >= self.samples_per_episode
Threshold(n) == n >= samples_per_episode

\* a stop that persists an empty buffer too
HasDataAlways(data) == TRUE

\* line 594: if not self.episode_data: return
HasData(data) == data # <<>>

\* update_buffer_stats(sample_received=True, sample_dropped=...): total_samples
TotalAfter(total, dropped) == total + 1

\* update_buffer_stats: dropped_samples, counted on the full branch only
DroppedAfter(n, dropped) == IF dropped THEN n + 1 ELSE n

\* --------------------------------------------------------- stop_episode
\* The state stop_episode leaves, as a record, from the fields as they are and
\* the buffer `data`; h5ok and csvok say whether each file can be written.
\* raised: an exception leaves stop_episode (save_episode_data has no try, and
\* a flat collection_stats cannot be indexed twice).
Unstopped ==
  [collecting |-> collecting, collection_stats |-> collection_stats,
   session_stats |-> session_stats, h5_files |-> h5_files,
   csv_files |-> csv_files, progress_file |-> progress_file,
   raised |-> FALSE, saved |-> FALSE]

\* stop_episode past its test of collecting (lines 594-604)
stop_saves(data, h5ok, csvok) ==
  LET name == FileName(now, current_class, current_episode_type)
      same == Unstopped
      h5 == WriteFile(h5_files, name, data)
      csv == IF csvok THEN WriteFile(csv_files, name, data) ELSE csv_files
      stats == Increment(collection_stats, current_class, current_episode_type)
      sess == [session_stats EXCEPT ![current_class] = @ + 1]
  IN IF ~HasData(data) THEN [same EXCEPT !.collecting = FALSE]     \* 594-596
     ELSE IF ~h5ok                                                 \* 599 raises
       THEN [same EXCEPT !.collecting = FALSE, !.raised = TRUE]
     ELSE IF stats_flat                                            \* 602 raises
       THEN [same EXCEPT !.collecting = FALSE, !.raised = TRUE,
                         !.h5_files = h5, !.csv_files = csv,
                         !.collection_stats =
                            [k \in DOMAIN collection_stats \cup {current_class} |-> 0]]
     ELSE [collecting |-> FALSE, collection_stats |-> stats,       \* 598-604
           session_stats |-> sess, h5_files |-> h5, csv_files |-> csv,
           progress_file |-> save_collection_progress(progress_file, stats, FALSE, sess),
           raised |-> FALSE, saved |-> TRUE]

\* stop_episode (lines 587-604)
stop_episode(data, h5ok, csvok) ==
  IF ~collecting THEN Unstopped                                    \* 588-590
  ELSE stop_saves(data, h5ok, csvok)

\* the primed fields a stop_episode outcome sets
SetStopped(so) ==
  /\ collecting' = so.collecting
  /\ session_stats' = so.session_stats
  /\ h5_files' = so.h5_files
  /\ csv_files' = so.csv_files
  /\ progress_file' = so.progress_file

\* an exception in the main thread leaves run() and main(): what was written
\* to disk stays, the process is gone
MainRaises(so) ==
  /\ ProcessEnds
  /\ h5_files' = so.h5_files
  /\ csv_files' = so.csv_files
  /\ progress_file' = so.progress_file

\* -------------------------------------------------------- start_episode
\* start_episode up to its input() prompt (lines 540-558), after the
\* stop_episode outcome `so` of line 541: "rejected" (no connection),
\* "raised" (stop_episode raised, or the flat map cannot be indexed), "prompt"
StartTo(so) ==
  IF so.raised THEN "raised"
  ELSE IF ~serial_open THEN "rejected"
  ELSE IF stats_flat THEN "raised"
  ELSE "prompt"

\* collection_stats after lines 540-551 for class c
StartStats(so, c) ==
  IF so.raised \/ ~serial_open THEN so.collection_stats
  ELSE IF stats_flat THEN [k \in DOMAIN so.collection_stats \cup {c} |-> 0]
  ELSE Touch(so.collection_stats, c, Types)

\* start_episode after the prompt (lines 559-579): "cancel", "raised" (flat
\* map), "quota", or "start"
StartChoice(c, choice) ==
  IF choice \notin Types THEN "cancel"
  ELSE IF stats_flat THEN "raised"
  ELSE IF Count(collection_stats, c, choice) >= episodes_per_type THEN "quota"
  ELSE "start"

\* lines 567-579: the new episode is open and the queue drained
Started(c, choice) ==
  /\ current_episode_type' = choice
  /\ current_class' = c
  /\ episode_data' = <<>>
  /\ collecting' = TRUE
  /\ data_queue' = <<>>
  /\ collection_stats' = Touch(collection_stats, c, {choice})

\* lines 559-565, the returns that start nothing
NotStarted(c, choice) ==
  /\ collection_stats' =
       IF choice \notin Types THEN collection_stats
       ELSE IF stats_flat THEN [k \in DOMAIN collection_stats \cup {c} |-> 0]
       ELSE Touch(collection_stats, c, {choice})
  /\ UNCHANGED <<current_episode_type, current_class, episode_data, collecting,
                 data_queue>>

\* ------------------------------------------------------ producer thread
\* _data_reception_worker, one iteration that keeps nothing: no bytes are
\* waiting, or the line is empty, a comment, not 12 fields, or not numbers
WorkerSkips(w) ==
  /\ running /\ worker[w] = "loop"
  /\ ~stop_event /\ serial_open
  /\ UNCHANGED vars

\* lines 370-373: the loop ends on the stop flag or a closed port
WorkerExits(w) ==
  /\ running /\ worker[w] = "loop"
  /\ stop_event \/ ~serial_open
  /\ worker' = [worker EXCEPT ![w] = "dead"]
  /\ UNCHANGED <<auxvars, running, launched, mainpc, main_class, serial_open, stop_event,
                 serial_thread, worker_class, data_queue, total_samples,
                 dropped_samples, max_queue_usage, collecting,
                 current_class, current_episode_type, episode_data,
                 initial_posture_reference, collection_stats, stats_flat,
                 session_stats, diskvars, cache_read, now, nlines>>

\* lines 492-494: the port raises (the device is unplugged) and the loop breaks
WorkerBreaks(w) ==
  /\ running /\ worker[w] = "loop"
  /\ ~stop_event /\ serial_open
  /\ worker' = [worker EXCEPT ![w] = "dead"]
  /\ UNCHANGED <<auxvars, running, launched, mainpc, main_class, serial_open, stop_event,
                 serial_thread, worker_class, data_queue, total_samples,
                 dropped_samples, max_queue_usage, collecting,
                 current_class, current_episode_type, episode_data,
                 initial_posture_reference, collection_stats, stats_flat,
                 session_stats, diskvars, cache_read, now, nlines>>

\* lines 445-467: the reading an iteration has parsed is offered to the queue,
\* appended to the open episode and, at the threshold, stop_episode and
\* start_episode(current_class) run up to the prompt
ReadingTaken(w, h5ok, csvok) ==
  /\ running /\ worker[w] = "loop"
  /\ ~stop_event /\ serial_open
  /\ LET r == nlines + 1
         full == QueueFull(data_queue)
         data == Buffered(episode_data, r, full)
         so == stop_episode(data, h5ok, csvok)
     IN /\ nlines' = r
        /\ data_queue' = Offer(data_queue, r)
        /\ total_samples' = TotalAfter(total_samples, full)
        /\ dropped_samples' = DroppedAfter(dropped_samples, full)
        /\ max_queue_usage' = Max(max_queue_usage, Len(Offer(data_queue, r)))
        /\ IF ~collecting                                           \* 460
           THEN UNCHANGED <<collecting, episode_data, collection_stats,
                            session_stats, diskvars, worker, worker_class>>
           ELSE IF ~Threshold(Len(data))                            \* 461-464
           THEN /\ episode_data' = data
                /\ UNCHANGED <<collecting, collection_stats, session_stats,
                               diskvars, worker, worker_class>>
           ELSE /\ episode_data' = data                             \* 465-467
                /\ SetStopped(so)
                /\ collection_stats' = StartStats(so, current_class)
                /\ worker' = [worker EXCEPT ![w] =
                     IF StartTo(so) = "prompt" THEN "input"
                     ELSE IF StartTo(so) = "raised" THEN "dead" ELSE "loop"]
                /\ worker_class' = [worker_class EXCEPT ![w] =
                     IF StartTo(so) = "prompt" THEN current_class ELSE @]
  /\ UNCHANGED <<running, launched, mainpc, main_class, serial_open, stop_event,
                 serial_thread, current_class, current_episode_type,
                 initial_posture_reference, stats_flat, cache_read, now>>

\* lines 375-467: one iteration that parses a reading and takes it, the text
\* of the line and the rate bookkeeping left aside
WorkerReads(w, h5ok, csvok) ==
  /\ nlines < MaxLines
  /\ ReadingTaken(w, h5ok, csvok)
  /\ UNCHANGED auxvars

\* ------------------------------------------------------- the line format
\* The text of one field: a whole number ("12"), a number with a fraction of
\* one half ("12.5"), "inf", the empty text, and text that is no number
Whole(n) == [k |-> "int", v |-> n]
Fraction(n) == [k |-> "dec", v |-> n]
Inf == [k |-> "inf", v |-> 0]
Blank == [k |-> "empty", v |-> 0]
Garbage == [k |-> "bad", v |-> 0]

\* a Python float: a number of halves, or infinity
Float(h) == [fin |-> TRUE, h |-> h]
Infinity == [fin |-> FALSE, h |-> 0]

\* float(text) raises ValueError
float_raises(f) == f.k \in {"empty", "bad"}
\* float(text)
py_float(f) ==
  IF f.k = "int" THEN Float(2 * f.v)
  ELSE IF f.k = "dec" THEN Float(2 * f.v + 1)
  ELSE Infinity

\* int(text) raises ValueError: the text is not a whole number
int_raises(f) == f.k # "int"
\* int(text)
py_int(f) == f.v

\* int(x) of a finite float x: the fraction is cut off
int_of_float(x) == IF x.h >= 0 THEN x.h \div 2 ELSE 0 - ((0 - x.h) \div 2)

\* lines 379-383: the stripped line is empty ("".split(',') is one empty field)
EmptyLine == [prefix |-> "", parts |-> <<Blank>>]

\* lines 382-392: the `continue`s, on an empty line, a comment and a line
\* that is not 12 fields
Skipped(line) ==
  \/ line = EmptyLine
  \/ line.prefix = "#"
  \/ Len(line.parts) # 12

\* line 396, int(float(parts[0])): what it raises
TimestampRaises(parts) ==
  IF float_raises(parts[1]) THEN "ValueError"
  ELSE IF ~py_float(parts[1]).fin THEN "OverflowError"
  ELSE "nothing"

\* line 396
arduino_ts(parts) == int_of_float(py_float(parts[1]))

\* lines 398-401: 0.0 for the first timestamp, else 1000.0 / max(1, dt_ms), kept
\* as the fraction num / den
sampling_hz(last, ts) ==
  IF last = Absent THEN [num |-> 0, den |-> 1]
  ELSE [num |-> 1000, den |-> Max(1, ts - last[1])]

\* lines 404-419: a field of the Reading raises ValueError
ReadingRaises(parts) ==
  \/ \E i \in 2..7 : float_raises(parts[i])
  \/ \E i \in 8..12 : int_raises(parts[i])

\* lines 404-419 with roll and yaw taken from each other's field
SensorReadingSwapped(parts, hz) ==
  [timestamp_ms |-> arduino_ts(parts),
   pitch |-> py_float(parts[2]), roll |-> py_float(parts[4]), yaw |-> py_float(parts[3]),
   accel_x |-> py_float(parts[5]), accel_y |-> py_float(parts[6]),
   accel_z |-> py_float(parts[7]),
   flex1 |-> py_int(parts[8]), flex2 |-> py_int(parts[9]), flex3 |-> py_int(parts[10]),
   flex4 |-> py_int(parts[11]), flex5 |-> py_int(parts[12]),
   sampling_hz |-> hz]

\* lines 404-419, SignGloveSensorReading(...); recv_timestamp_ms, the wall
\* clock of the host, is read by nothing and left out
SensorReading(parts, hz) ==
  [timestamp_ms |-> arduino_ts(parts),
   pitch |-> py_float(parts[2]), roll |-> py_float(parts[3]), yaw |-> py_float(parts[4]),
   accel_x |-> py_float(parts[5]), accel_y |-> py_float(parts[6]),
   accel_z |-> py_float(parts[7]),
   flex1 |-> py_int(parts[8]), flex2 |-> py_int(parts[9]), flex3 |-> py_int(parts[10]),
   flex4 |-> py_int(parts[11]), flex5 |-> py_int(parts[12]),
   sampling_hz |-> hz]

\* what one line does to the iteration that reads it: "skipped" (a
\* `continue`), "rejected" (the inner except, lines 469-470), "escaped" (an
\* exception the inner except does not name: lines 492-494), "reading"
Outcome(line) ==
  IF Skipped(line) THEN "skipped"
  ELSE IF TimestampRaises(line.parts) = "ValueError" THEN "rejected"
  ELSE IF TimestampRaises(line.parts) = "OverflowError" THEN "escaped"
  ELSE IF ReadingRaises(line.parts) THEN "rejected"
  ELSE "reading"

\* last_arduino_ms after the line: line 402 runs once the timestamp is
\* converted, before the other fields are
LastAfter(line, last) ==
  IF ~Skipped(line) /\ TimestampRaises(line.parts) = "nothing"
  THEN <<arduino_ts(line.parts)>>
  ELSE last

\* lines 370-470: one iteration that reads the line `line`. The rate
\* bookkeeping depends on the wall clock alone and is followed in SpecRate.
ProducerLine(w, line, h5ok, csvok) ==
  /\ running /\ worker[w] = "loop"
  /\ ~stop_event /\ serial_open
  /\ raw' = line
  /\ last_arduino_ms' = LastAfter(line, last_arduino_ms)
  /\ UNCHANGED <<ratevars, handvars, racevars, reportvars>>
  /\ IF Outcome(line) = "reading"
     THEN /\ nlines < MaxLines
          /\ ReadingTaken(w, h5ok, csvok)
          /\ prev_reading' =
               <<SensorReading(line.parts,
                               sampling_hz(last_arduino_ms, arduino_ts(line.parts)))>>
     ELSE /\ worker' = [worker EXCEPT ![w] =
               IF Outcome(line) = "escaped" THEN "dead" ELSE @]
          /\ UNCHANGED <<prev_reading, running, launched, mainpc, main_class,
                         serial_open, stop_event, serial_thread, worker_class,
                         data_queue, total_samples, dropped_samples,
                         max_queue_usage, collecting, current_class,
                         current_episode_type, episode_data,
                         initial_posture_reference, collection_stats, stats_flat,
                         session_stats, diskvars, cache_read, now, nlines>>

\* lines 558-579 in the producer: the operator answers the prompt of the
\* start_episode that line 467 called
PromptAnswered(w, choice) ==
  /\ running /\ worker[w] = "input"
  /\ IF StartChoice(worker_class[w], choice) = "start"
     THEN Started(worker_class[w], choice)
     ELSE NotStarted(worker_class[w], choice)
  /\ worker' = [worker EXCEPT ![w] =
       IF StartChoice(worker_class[w], choice) = "raised" THEN "dead" ELSE "loop"]
  /\ worker_class' = [worker_class EXCEPT ![w] = None]
  /\ UNCHANGED <<running, launched, mainpc, main_class, serial_open, stop_event,
                 serial_thread, total_samples, dropped_samples, max_queue_usage,
                 initial_posture_reference, stats_flat, session_stats, diskvars,
                 cache_read, now, nlines>>

\* the prompt is answered and the iteration ends, the rate bookkeeping left
\* aside
WorkerInput(w, choice) ==
  /\ PromptAnswered(w, choice)
  /\ UNCHANGED auxvars

\* ------------------------------------------------------ rate bookkeeping
\* Rates are counted in tenths of a hertz and pauses in tenths of a
\* millisecond. The upper bound of the pause (0.1 s at line 300), the length of
\* the rate window (100 at line 321) and the number of rates the controller
\* averages (10 at line 292) are scaled down.
TARGET_SAMPLING_RATE == 333
SAMPLING_RATE_TOLERANCE == 2
MaxSleepTime == 13
RateWindow == 3
RateMeanOver == 2

Min(a, b) == IF a <= b THEN a ELSE b

RECURSIVE Sum(_)
Sum(seq) == IF seq = <<>> THEN 0 ELSE Head(seq) + Sum(Tail(seq))

\* seq[-n:]
LastN(seq, n) == SubSeq(seq, Max(1, Len(seq) - n + 1), Len(seq))

\* no rate: the clock has not moved since the last sample (dt = 0, line 318)
NoRate == 0

\* lines 316-322 without the trimming of line 321-322
recordedUntrimmed(history, rate, first) ==
  IF first \/ rate = NoRate THEN history ELSE Append(history, rate)

\* update_buffer_stats lines 316-322: sample_rate_history after a sample;
\* `first` is last_sample_time still being None
recorded(history, rate, first) ==
  IF first \/ rate = NoRate THEN history
  ELSE LastN(Append(history, rate), RateWindow)

\* lines 291-302 with the two directions exchanged
adjustedBackwards(history, sleep) ==
  IF history = <<>> THEN sleep
  ELSE LET k == Min(RateMeanOver, Len(history))
           rate_diff == Sum(LastN(history, RateMeanOver)) - TARGET_SAMPLING_RATE * k
       IN IF rate_diff > SAMPLING_RATE_TOLERANCE * k
             \/ 0 - rate_diff > SAMPLING_RATE_TOLERANCE * k
          THEN IF rate_diff > 0
               THEN Max(MIN_SLEEP_TIME, (sleep * 9) \div 10)
               ELSE Min(MaxSleepTime, (sleep * 11) \div 10)
          ELSE sleep

\* adjust_sampling_rate lines 291-302, once the interval has passed:
\* current_sleep_time after it. rate_diff is current_rate - TARGET, times the
\* number k of rates in the mean; a product is cut to a whole number of units.
adjusted(history, sleep) ==
  IF history = <<>> THEN sleep
  ELSE LET k == Min(RateMeanOver, Len(history))
           rate_diff == Sum(LastN(history, RateMeanOver)) - TARGET_SAMPLING_RATE * k
       IN IF rate_diff > SAMPLING_RATE_TOLERANCE * k
             \/ 0 - rate_diff > SAMPLING_RATE_TOLERANCE * k
          THEN IF rate_diff > 0
               THEN Min(MaxSleepTime, (sleep * 11) \div 10)
               ELSE Max(MIN_SLEEP_TIME, (sleep * 9) \div 10)
          ELSE sleep

\* a controller that returns at line 288 every time
adjust_skipped(w, due) == current_sleep_time' = current_sleep_time

\* adjust_sampling_rate (line 489) at the end of an iteration that is still
\* in the loop; `due` is the test of line 287 on the wall clock
adjust_sampling_rate(w, due) ==
  current_sleep_time' =
    IF due /\ worker'[w] = "loop"
    THEN adjusted(sample_rate_history', current_sleep_time)
    ELSE current_sleep_time

\* lines 445-490: an iteration with a reading, `rate` being 1/dt of the wall
\* clock since the last sample (NoRate for dt = 0)
ProducerSample(w, rate, due, h5ok, csvok) ==
  /\ nlines < MaxSamples
  /\ ReadingTaken(w, h5ok, csvok)
  /\ sample_rate_history' = recorded(sample_rate_history, rate, total_samples = 0)
  /\ adjust_sampling_rate(w, due)
  /\ UNCHANGED <<linevars, handvars, racevars, reportvars>>

\* lines 374 and 489-490: an iteration with no bytes waiting
ProducerIdle(w, due) ==
  /\ running /\ worker[w] = "loop"
  /\ ~stop_event /\ serial_open
  /\ UNCHANGED <<linevars, handvars, racevars, reportvars, running, launched, memvars, diskvars,
                 cache_read, now, nlines, sample_rate_history>>
  /\ adjust_sampling_rate(w, due)

\* lines 558-579 and 489-490: the prompt of the producer is answered and the
\* iteration ends
ProducerResumes(w, choice, due) ==
  /\ PromptAnswered(w, choice)
  /\ UNCHANGED sample_rate_history
  /\ adjust_sampling_rate(w, due)
  /\ UNCHANGED <<linevars, handvars, racevars, reportvars>>

\* ---------------------------------------------------------- main thread
\* what a key handler leaves alone besides the recorder and the disk
MainFrame ==
  UNCHANGED <<auxvars, running, launched, main_class, serial_open, stop_event, serial_thread,
              worker, worker_class, data_queue, total_samples, dropped_samples,
              max_queue_usage, current_class, current_episode_type,
              episode_data, initial_posture_reference, stats_flat, cache_read, now,
              nlines>>

\* handle_key_input 'q' (lines 970-974): stop_episode if collecting, sys.exit
KeyQ(h5ok, csvok) ==
  /\ running /\ mainpc = "keys"
  /\ MainRaises(stop_episode(episode_data, h5ok, csvok))
  /\ UNCHANGED <<now, nlines>>

\* handle_key_input 'm' (lines 988-992): stop_episode
KeyM(h5ok, csvok) ==
  /\ running /\ mainpc = "keys"
  /\ LET so == stop_episode(episode_data, h5ok, csvok)
     IN IF so.raised
        THEN MainRaises(so) /\ UNCHANGED <<now, nlines>>
        ELSE /\ SetStopped(so)
             /\ collection_stats' = so.collection_stats
             /\ mainpc' = "keys"
             /\ MainFrame

\* show_class_selection line 510: every class is read, which inserts its key
ShownStats(stats) ==
  [k \in DOMAIN stats \cup Classes |->
     IF k \in DOMAIN stats THEN stats[k] ELSE [t \in {} |-> 0]]

\* handle_key_input 'n' (lines 983-986): stop_episode, then show_class_selection,
\* whose sum(...values()) raises on a flat map
KeyN(h5ok, csvok) ==
  /\ running /\ mainpc = "keys"
  /\ LET so == stop_episode(episode_data, h5ok, csvok)
     IN IF so.raised \/ stats_flat
        THEN MainRaises(so) /\ UNCHANGED <<now, nlines>>
        ELSE /\ SetStopped(so)
             /\ collection_stats' = ShownStats(so.collection_stats)
             /\ mainpc' = "class_select"
             /\ MainFrame

\* run() reads the class choice, handle_key_input calls start_episode (lines
\* 959-968, 539-558), which runs up to its own prompt
ClassInput(choice, h5ok, csvok) ==
  /\ running /\ mainpc = "class_select"
  /\ LET so == stop_episode(episode_data, h5ok, csvok)
     IN IF choice \notin Classes
        THEN /\ mainpc' = "keys"
             /\ UNCHANGED <<auxvars, running, launched, main_class, serial_open, stop_event,
                            serial_thread, worker, worker_class, data_queue,
                            total_samples, dropped_samples, max_queue_usage, collecting, current_class,
                            current_episode_type, episode_data,
                            initial_posture_reference, collection_stats,
                            stats_flat, session_stats, diskvars, cache_read, now, nlines>>
        ELSE IF StartTo(so) = "raised"
        THEN MainRaises(so) /\ UNCHANGED <<now, nlines>>
        ELSE /\ SetStopped(so)
             /\ collection_stats' = StartStats(so, choice)
             /\ mainpc' = IF StartTo(so) = "prompt" THEN "type_select" ELSE "keys"
             /\ main_class' = IF StartTo(so) = "prompt" THEN choice ELSE main_class
             /\ UNCHANGED <<auxvars, running, launched, serial_open, stop_event, serial_thread,
                            worker, worker_class, data_queue, total_samples,
                            dropped_samples, max_queue_usage,
                            current_class, current_episode_type, episode_data,
                            initial_posture_reference, stats_flat, cache_read, now,
              nlines>>

\* start_episode in the main thread after its prompt (lines 558-579)
TypeInput(choice) ==
  /\ running /\ mainpc = "type_select"
  /\ IF StartChoice(main_class, choice) = "raised"
     THEN /\ ProcessEnds
          /\ UNCHANGED <<diskvars, now, nlines>>
     ELSE /\ IF StartChoice(main_class, choice) = "start"
             THEN Started(main_class, choice)
             ELSE NotStarted(main_class, choice)
          /\ mainpc' = "keys"
          /\ main_class' = None
          /\ UNCHANGED <<auxvars, running, launched, serial_open, stop_event, serial_thread,
                         worker, worker_class, total_samples, dropped_samples,
                         max_queue_usage, initial_posture_reference,
                         stats_flat, session_stats, diskvars, cache_read, now, nlines>>

\* handle_key_input 'd': reset_all_progress up to its confirmation prompt
KeyD ==
  /\ running /\ mainpc = "keys"
  /\ mainpc' = "confirm"
  /\ UNCHANGED <<auxvars, running, launched, main_class, serial_open, stop_event, serial_thread,
                 worker, worker_class, data_queue, total_samples,
                 dropped_samples, max_queue_usage, collecting,
                 current_class, current_episode_type, episode_data,
                 initial_posture_reference, collection_stats, stats_flat,
                 session_stats, diskvars, cache_read, now, nlines>>

\* a reset that does not wait for the answer
ConfirmEager(yes) ==
  /\ running /\ mainpc = "confirm"
  /\ mainpc' = "keys"
  /\ IF TRUE
     THEN /\ collection_stats' = EmptyStats
          /\ stats_flat' = TRUE
          /\ session_stats' = [c \in Classes |-> 0]
          /\ progress_file' = save_collection_progress(progress_file, EmptyStats,
                                 TRUE, [c \in Classes |-> 0])
     ELSE UNCHANGED <<collection_stats, stats_flat, session_stats, progress_file>>
  /\ UNCHANGED <<auxvars, running, launched, main_class, serial_open, stop_event, serial_thread,
                 worker, worker_class, data_queue, total_samples,
                 dropped_samples, max_queue_usage, collecting,
                 current_class, current_episode_type, episode_data,
                 initial_posture_reference, h5_files, csv_files, cache_read,
                 now, nlines>>

\* reset_all_progress after the prompt (lines 913-932): on 'y' the *.h5 and
\* *.csv directly under data_dir are unlinked (the episodes live two levels
\* down, so none of them is), both maps become defaultdict(int), and the
\* progress file is saved
Confirm(yes) ==
  /\ running /\ mainpc = "confirm"
  /\ mainpc' = "keys"
  /\ IF yes
     THEN /\ collection_stats' = EmptyStats
          /\ stats_flat' = TRUE
          /\ session_stats' = [c \in Classes |-> 0]
          /\ progress_file' = save_collection_progress(progress_file, EmptyStats,
                                 TRUE, [c \in Classes |-> 0])
     ELSE UNCHANGED <<collection_stats, stats_flat, session_stats, progress_file>>
  /\ UNCHANGED <<auxvars, running, launched, main_class, serial_open, stop_event, serial_thread,
                 worker, worker_class, data_queue, total_samples,
                 dropped_samples, max_queue_usage, collecting,
                 current_class, current_episode_type, episode_data,
                 initial_posture_reference, h5_files, csv_files, cache_read,
                 now, nlines>>

\* handle_key_input 's': set_initial_posture takes a reading off the queue
KeyS ==
  /\ running /\ mainpc = "keys"
  /\ data_queue # <<>>
  /\ initial_posture_reference' = Head(data_queue)
  /\ data_queue' = Tail(data_queue)
  /\ UNCHANGED <<auxvars, running, launched, mainpc, main_class, serial_open, stop_event,
                 serial_thread, worker, worker_class, total_samples,
                 dropped_samples, max_queue_usage, collecting,
                 current_class, current_episode_type, episode_data,
                 collection_stats, stats_flat, session_stats, diskvars, cache_read,
                 now, nlines>>

\* handle_key_input 'i': check_initial_posture takes a reading off the queue
\* once a reference is set
KeyI ==
  /\ running /\ mainpc = "keys"
  /\ initial_posture_reference # NoReading
  /\ data_queue # <<>>
  /\ data_queue' = Tail(data_queue)
  /\ UNCHANGED <<auxvars, running, launched, mainpc, main_class, serial_open, stop_event,
                 serial_thread, worker, worker_class, total_samples,
                 dropped_samples, max_queue_usage, collecting,
                 current_class, current_episode_type, episode_data,
                 initial_posture_reference, collection_stats, stats_flat,
                 session_stats, diskvars, cache_read, now, nlines>>

\* ---------------------------------------------------------------- connect
\* what the connect steps leave alone
ConnectFrame ==
  UNCHANGED <<raw, ratevars, racevars, reportvars, running, launched, main_class, data_queue, total_samples, dropped_samples,
              max_queue_usage, collecting, current_class,
              current_episode_type, episode_data, initial_posture_reference,
              collection_stats, stats_flat, session_stats, worker_class,
              diskvars, cache_read, now, nlines>>

\* handle_key_input 'c', connect_arduino lines 195-196: an open port is closed
KeyC ==
  /\ running /\ mainpc = "keys"
  /\ serial_open' = FALSE
  /\ mainpc' = "open"
  /\ UNCHANGED <<stop_event, serial_thread, worker, last_arduino_ms, prev_reading,
                 handvars>>
  /\ ConnectFrame

\* connect_arduino lines 198-206: no port is found, or serial.Serial raises, or
\* the port opens and the device is given its two seconds
ConnectOpens(opened) ==
  /\ running /\ mainpc = "open"
  /\ serial_open' = opened
  /\ mainpc' = IF opened THEN "handshake" ELSE "keys"
  /\ response' = IF opened THEN Absent ELSE response
  /\ polls' = IF opened THEN <<>> ELSE polls
  /\ connect_result' = IF opened THEN connect_result ELSE "failed"     \* 201, 232
  /\ UNCHANGED <<stop_event, serial_thread, worker, last_arduino_ms, prev_reading>>
  /\ ConnectFrame

\* the lowest thread that is not running
FreeThread == CHOOSE w \in Threads : worker[w] = "dead" /\ \A v \in Threads : worker[v] = "dead" => w <= v

\* start_data_reception lines 276-278, and lines 367-368 of the new thread
StartThread ==
  /\ stop_event' = FALSE
  /\ serial_thread' = FreeThread
  /\ worker' = [worker EXCEPT ![FreeThread] = "loop"]
  /\ last_arduino_ms' = Absent
  /\ prev_reading' = Absent

\* connect_arduino lines 208-229 (the AUTO_* commands are off), with the
\* result `ok` of test_communication: start_data_reception up to its join.
\* There are no more producer threads than Threads: a handshake is not followed
\* when it succeeds while the producer sits in a prompt and no other thread is
\* left.
Connects(ok) ==
  /\ running /\ mainpc = "handshake"
  /\ (ok /\ serial_thread # 0 /\ worker[serial_thread] = "input") =>
        \E w \in Threads : worker[w] = "dead"
  /\ IF ~ok
     THEN /\ mainpc' = "keys"
          /\ connect_result' = "failed"                              \* 211
          /\ UNCHANGED <<stop_event, serial_thread, worker, last_arduino_ms,
                         prev_reading>>
     ELSE IF serial_thread # 0 /\ worker[serial_thread] # "dead"     \* 273-275
     THEN /\ stop_event' = TRUE
          /\ mainpc' = "join"
          /\ UNCHANGED <<serial_thread, worker, last_arduino_ms, prev_reading,
                         connect_result>>
     ELSE /\ StartThread
          /\ mainpc' = "keys"
          /\ connect_result' = "ok"                                  \* 229
  /\ UNCHANGED serial_open
  /\ ConnectFrame

\* the handshake, of which only the result is followed
Handshake(ok) ==
  /\ Connects(ok)
  /\ UNCHANGED <<response, polls>>

\* ------------------------------------------------------------- handshake
\* the polls of test_communication (line 260)
HandshakePolls == 3

\* what a poll finds: no bytes waiting, a port that raises, or a line, which
\* is the words between its commas
NoBytes == [k |-> "nobytes", words |-> <<>>]
Raises == [k |-> "raises", words |-> <<>>]
Answer(words) == [k |-> "line", words |-> words]

\* str.lower() of a word
lower(word) ==
  IF word = "TimeStamp" THEN "timestamp"
  ELSE IF word = "FLEX" THEN "flex"
  ELSE word

\* line 263 with `or` for `and`
IsHeaderEither(words) ==
  \/ \E i \in 1..Len(words) : lower(words[i]) = "timestamp"
  \/ \E i \in 1..Len(words) : lower(words[i]) = "flex"

\* line 263: 'timestamp' in response.lower() and 'flex' in response.lower()
IsHeader(words) ==
  /\ \E i \in 1..Len(words) : lower(words[i]) = "timestamp"
  /\ \E i \in 1..Len(words) : lower(words[i]) = "flex"

\* test_communication lines 260-269 from poll i on, `last` being the line read
\* last: its result and the line read last
RECURSIVE test_communication(_, _, _)
test_communication(found, i, last) ==
  IF i > HandshakePolls THEN [ok |-> FALSE, response |-> last]
  ELSE IF found[i] = Raises THEN [ok |-> FALSE, response |-> last]
  ELSE IF found[i] = NoBytes THEN test_communication(found, i + 1, last)
  ELSE IF IsHeader(found[i].words) THEN [ok |-> TRUE, response |-> <<found[i].words>>]
  ELSE test_communication(found, i + 1, <<found[i].words>>)

\* connect_arduino lines 208-229 when the polls find `found`
HandshakeReads(found) ==
  /\ Connects(test_communication(found, 1, Absent).ok)
  /\ response' = test_communication(found, 1, Absent).response
  /\ polls' = found

\* start_data_reception line 275 returns: the thread has ended, or the two
\* seconds are over while it still sits in a prompt
JoinReturns ==
  /\ running /\ mainpc = "join"
  /\ worker[serial_thread] \in {"dead", "input"}
  /\ \E w \in Threads : worker[w] = "dead"
  /\ StartThread
  /\ mainpc' = "keys"
  /\ connect_result' = "ok"                                          \* 229
  /\ UNCHANGED <<serial_open, response, polls>>
  /\ ConnectFrame

\* ------------------------------------------------------------------ clock
\* a second passes. The clock is read only where a file is named (lines 624
\* and 646), in a step that starts with an episode open and a reading in its
\* buffer, so the seconds that pass at other times are taken to pass then.
Tick ==
  /\ running
  /\ collecting /\ episode_data # <<>>
  /\ now < MaxClock
  /\ now' = now + 1
  /\ UNCHANGED <<auxvars, running, launched, memvars, diskvars, cache_read, nlines>>

\* ------------------------------------------------------------------- disk
\* k episode files of (c, t) left by earlier runs, one reading each
OldFiles(c, t, k) == [n \in {FileName(0 - i, c, t) : i \in 1..k} |-> <<1>>]

\* f and g are files of different directories
Both(f, g) == [n \in DOMAIN f \cup DOMAIN g |-> IF n \in DOMAIN f THEN f[n] ELSE g[n]]

\* progress files an earlier run can have left for class A, type 1
OldCaches ==
  {AbsentFile, CorruptFile, ProgressData(EmptyStats, [c \in Classes |-> 0])}
  \cup {ProgressData([c \in {"A"} |-> [t \in {"1"} |-> n]],
                     [c \in Classes |-> IF c = "A" THEN s ELSE 0]) :
          n \in 0..MaxOldFiles, s \in 0..1}

\* ------------------------------------------------------------------- init
NotRunning ==
  /\ running = FALSE
  /\ launched = FALSE
  /\ mainpc = "keys"
  /\ main_class = None
  /\ serial_open = FALSE
  /\ stop_event = FALSE
  /\ serial_thread = 0
  /\ worker = [w \in Threads |-> "dead"]
  /\ worker_class = [w \in Threads |-> None]
  /\ data_queue = <<>>
  /\ total_samples = 0
  /\ dropped_samples = 0
  /\ max_queue_usage = 0
  /\ collecting = FALSE
  /\ current_class = None
  /\ current_episode_type = None
  /\ episode_data = <<>>
  /\ initial_posture_reference = NoReading
  /\ collection_stats = EmptyStats
  /\ stats_flat = FALSE
  /\ session_stats = [c \in Classes |-> 0]
  /\ cache_read = AbsentFile
  /\ now = 0
  /\ nlines = 0
  /\ raw = NoLine
  /\ last_arduino_ms = Absent
  /\ prev_reading = Absent
  /\ sample_rate_history = <<>>
  /\ current_sleep_time = MIN_SLEEP_TIME
  /\ response = Absent
  /\ polls = <<>>
  /\ connect_result = "none"
  /\ pending = Absent
  /\ h5_rows = <<>>
  /\ shown = NoReport

\* the program is started on what one earlier run left: one episode of
\* (A, 1) in both formats and the progress file that run saved
Init ==
  /\ NotRunning
  /\ h5_files = OldFiles("A", "1", 1)
  /\ csv_files = OldFiles("A", "1", 1)
  /\ progress_file = ProgressData(Increment(Touch(EmptyStats, "A", Types), "A", "1"),
                                  [c \in Classes |-> 1])

Inputs == Types \cup {Cancel}

Next ==
  \/ Launch
  \/ Tick
  \/ KeyC
  \/ \E opened \in BOOLEAN : ConnectOpens(opened)
  \/ \E ok \in BOOLEAN : Handshake(ok)
  \/ JoinReturns
  \/ \E h5ok, csvok \in BOOLEAN : KeyQ(h5ok, csvok)
  \/ \E h5ok, csvok \in BOOLEAN : KeyM(h5ok, csvok)
  \/ \E h5ok, csvok \in BOOLEAN : KeyN(h5ok, csvok)
  \/ \E c \in Classes \cup {Cancel}, h5ok, csvok \in BOOLEAN : ClassInput(c, h5ok, csvok)
  \/ \E t \in Inputs : TypeInput(t)
  \/ KeyD
  \/ \E yes \in BOOLEAN : Confirm(yes)
  \/ \E w \in Threads : WorkerSkips(w)
  \/ \E w \in Threads : WorkerExits(w)
  \/ \E w \in Threads : WorkerBreaks(w)
  \/ \E w \in Threads, h5ok, csvok \in BOOLEAN : WorkerReads(w, h5ok, csvok)
  \/ \E w \in Threads, t \in Inputs : WorkerInput(w, t)

Spec == Init /\ [][Next]_vars

\* The threads are scheduled by the operating system: a producer at the top
\* of its loop (line 370) whose loop condition fails leaves the loop, and
\* join(timeout=2) (line 275) returns. Nothing makes the operator type or the
\* device send.
Scheduling ==
  /\ \A w \in Threads : WF_vars(WorkerExits(w))
  /\ WF_vars(JoinReturns)

SpecLive == Spec /\ Scheduling

\* ------------------------------------------- the queue and its consumers
\* The posture keys 's' and 'i' touch nothing but the queue and the posture
\* reference, which no recorder code reads; they are checked together with
\* the producer and the start of an episode, every file write succeeding.
NextQueue ==
  \/ Launch
  \/ KeyC
  \/ \E opened \in BOOLEAN : ConnectOpens(opened)
  \/ \E ok \in BOOLEAN : Handshake(ok)
  \/ JoinReturns
  \/ KeyN(TRUE, TRUE)
  \/ \E c \in Classes \cup {Cancel} : ClassInput(c, TRUE, TRUE)
  \/ \E t \in Inputs : TypeInput(t)
  \/ KeyS
  \/ KeyI
  \/ \E w \in Threads : WorkerSkips(w)
  \/ \E w \in Threads : WorkerExits(w)
  \/ \E w \in Threads : WorkerBreaks(w)
  \/ \E w \in Threads : WorkerReads(w, TRUE, TRUE)
  \/ \E w \in Threads, t \in Inputs : WorkerInput(w, t)

SpecQueue == Init /\ [][NextQueue]_vars

\* ------------------------------------- a finalization, statement by statement
\* The producer and the main thread share collecting and episode_data without
\* a lock; the steps below stop where the other thread can run in between.

\* lines 445-460: the reading is offered to the queue and `if self.collecting`
\* is evaluated; when it is true the producer goes on to the append
ProducerTests(w) ==
  /\ running /\ worker[w] = "loop"
  /\ ~stop_event /\ serial_open
  /\ nlines < MaxLines
  /\ LET r == nlines + 1
         full == QueueFull(data_queue)
     IN /\ nlines' = r
        /\ data_queue' = Offer(data_queue, r)
        /\ total_samples' = TotalAfter(total_samples, full)
        /\ dropped_samples' = DroppedAfter(dropped_samples, full)
        /\ max_queue_usage' = Max(max_queue_usage, Len(Offer(data_queue, r)))
        /\ pending' = IF collecting THEN <<r>> ELSE Absent
        /\ worker' = [worker EXCEPT ![w] = IF collecting THEN "append" ELSE "loop"]
  /\ UNCHANGED <<linevars, ratevars, handvars, reportvars, h5_rows, running, launched, mainpc,
                 main_class, serial_open, stop_event, serial_thread, worker_class,
                 collecting, current_class, current_episode_type, episode_data,
                 initial_posture_reference, collection_stats, stats_flat,
                 session_stats, diskvars, cache_read, now>>

\* lines 461-467: the append, and at the threshold stop_episode and
\* start_episode(current_class) up to the prompt
ProducerAppends(w, h5ok, csvok) ==
  /\ running /\ worker[w] = "append"
  /\ LET data == Append(episode_data, pending[1])
         so == stop_episode(data, h5ok, csvok)
     IN /\ episode_data' = data
        /\ pending' = Absent
        /\ IF ~Threshold(Len(data))
           THEN /\ worker' = [worker EXCEPT ![w] = "loop"]
                /\ UNCHANGED <<collecting, collection_stats, session_stats,
                               diskvars, worker_class>>
           ELSE /\ SetStopped(so)
                /\ collection_stats' = StartStats(so, current_class)
                /\ worker' = [worker EXCEPT ![w] =
                     IF StartTo(so) = "prompt" THEN "input"
                     ELSE IF StartTo(so) = "raised" THEN "dead" ELSE "loop"]
                /\ worker_class' = [worker_class EXCEPT ![w] =
                     IF StartTo(so) = "prompt" THEN current_class ELSE @]
  /\ UNCHANGED <<linevars, ratevars, handvars, reportvars, h5_rows, running, launched, mainpc,
                 main_class, serial_open, stop_event, serial_thread, data_queue,
                 total_samples, dropped_samples, max_queue_usage, current_class,
                 current_episode_type, initial_posture_reference, stats_flat,
                 cache_read, now, nlines>>

\* what the steps of a finalization leave alone besides the buffer, the
\* counts and the disk
StopFrame ==
  UNCHANGED <<linevars, ratevars, handvars, reportvars, pending, running, launched, main_class,
              serial_open, stop_event, serial_thread, worker, worker_class,
              data_queue, total_samples, dropped_samples, max_queue_usage,
              current_class, current_episode_type, episode_data,
              initial_posture_reference, stats_flat, cache_read, now, nlines>>

\* key 'm' (lines 988-990), stop_episode lines 588-597 and save_episode_data
\* lines 647-675: collecting is cleared and the arrays are built from the buffer
StopBegins ==
  /\ running /\ mainpc = "keys"
  /\ collecting
  /\ collecting' = FALSE
  /\ h5_rows' = IF HasData(episode_data) THEN episode_data ELSE h5_rows
  /\ mainpc' = IF HasData(episode_data) THEN "h5" ELSE "keys"
  /\ UNCHANGED <<collection_stats, session_stats, diskvars>>
  /\ StopFrame

\* save_episode_data line 681: f.attrs['num_samples']
num_samples == Len(episode_data)

\* save_episode_data lines 677-698: the file is written from the arrays
StopWritesH5 ==
  /\ running /\ mainpc = "h5"
  /\ h5_files' = WriteFile(h5_files, FileName(now, current_class, current_episode_type),
                           h5_rows)
  /\ mainpc' = "csv"
  /\ UNCHANGED <<collecting, h5_rows, collection_stats, session_stats, csv_files,
                 progress_file>>
  /\ StopFrame

\* save_episode_data_csv lines 621-640: the file is written from the buffer
StopWritesCsv ==
  /\ running /\ mainpc = "csv"
  /\ csv_files' = WriteFile(csv_files, FileName(now, current_class, current_episode_type),
                            episode_data)
  /\ mainpc' = "count"
  /\ UNCHANGED <<collecting, h5_rows, collection_stats, session_stats, h5_files,
                 progress_file>>
  /\ StopFrame

\* stop_episode lines 602-604: the episode is counted and the progress saved
StopCounts ==
  /\ running /\ mainpc = "count"
  /\ ~stats_flat
  /\ LET stats == Increment(collection_stats, current_class, current_episode_type)
         sess == [session_stats EXCEPT ![current_class] = @ + 1]
     IN /\ collection_stats' = stats
        /\ session_stats' = sess
        /\ progress_file' = save_collection_progress(progress_file, stats, FALSE, sess)
  /\ mainpc' = "keys"
  /\ UNCHANGED <<collecting, h5_rows, h5_files, csv_files>>
  /\ StopFrame

\* key 'm' (line 989) and stop_episode line 588: collecting is tested, and
\* found set
StopTests ==
  /\ running /\ mainpc = "keys"
  /\ collecting
  /\ mainpc' = "stopping"
  /\ UNCHANGED <<collecting, collection_stats, session_stats, diskvars>>
  /\ MainFrame

\* stop_episode lines 594-604, run by the main thread that has passed the test
StopSaves(h5ok, csvok) ==
  /\ running /\ mainpc = "stopping"
  /\ LET so == stop_saves(episode_data, h5ok, csvok)
     IN IF so.raised
        THEN MainRaises(so) /\ UNCHANGED <<now, nlines>>
        ELSE /\ SetStopped(so)
             /\ collection_stats' = so.collection_stats
             /\ mainpc' = "keys"
             /\ MainFrame

\* ------------------------------------------- the lines the device sends
\* a line of 12 whole numbers, every field different from the others
GoodParts(ts) == [i \in 1..12 |-> IF i = 1 THEN Whole(ts) ELSE Whole(i)]
Line(parts) == [prefix |-> "", parts |-> parts]
Comment(parts) == [prefix |-> "#", parts |-> parts]

\* the timestamps the device sends: it may repeat one, and its clock may
\* restart below the last one
Timestamps == {100, 110}

\* good lines; lines with one field that is a fraction or no number; lines
\* with an infinite or empty timestamp, angle or flex value; lines of 11 and of
\* 13 fields; a comment; an empty line
Lines ==
  {Line(GoodParts(ts)) : ts \in Timestamps}
    \cup UNION {{Line([GoodParts(110) EXCEPT ![i] = f]) :
                   f \in {Fraction(100 + i), Garbage}} : i \in 1..12}
    \cup {Line([GoodParts(110) EXCEPT ![i] = f]) : i \in {1, 2, 8}, f \in {Inf, Blank}}
    \cup {Line(SubSeq(GoodParts(100), 1, 11)),
          Line(Append(GoodParts(100), Whole(13))),
          Comment(GoodParts(100)),
          EmptyLine}

\* The producer reads lines while the operator connects, once, and opens an
\* episode of type 1; every file write succeeds.
NextParse ==
  \/ Launch
  \/ KeyC /\ serial_thread = 0
  \/ ConnectOpens(TRUE)
  \/ Handshake(TRUE)
  \/ KeyN(TRUE, TRUE) /\ ~collecting
  \/ \E c \in Classes : ClassInput(c, TRUE, TRUE)
  \/ TypeInput("1")
  \/ \E w \in Threads, line \in Lines : ProducerLine(w, line, TRUE, TRUE)
  \/ \E w \in Threads : WorkerInput(w, "1")

SpecParse == Init /\ [][NextParse]_vars

\* ------------------------------------------- the rates and the statistics
\* the rates the wall clock gives: one below and one above the tolerated band,
\* their mean inside it
Rates == {328, 340}

\* The producer takes samples and idles, its controller due or not, while the
\* operator connects, once, opens an episode and drains the queue with the
\* posture keys; every file write succeeds.
NextRate ==
  \/ Launch
  \/ KeyC /\ serial_thread = 0
  \/ ConnectOpens(TRUE)
  \/ Handshake(TRUE)
  \/ KeyN(TRUE, TRUE) /\ ~collecting
  \/ \E c \in Classes : ClassInput(c, TRUE, TRUE)
  \/ \E t \in Types : TypeInput(t)
  \/ KeyS
  \/ KeyI
  \/ \E w \in Threads, rate \in Rates \cup {NoRate}, due \in BOOLEAN :
       ProducerSample(w, rate, due, TRUE, TRUE)
  \/ \E w \in Threads, due \in BOOLEAN : ProducerIdle(w, due)
  \/ \E w \in Threads, t \in Types, due \in BOOLEAN : ProducerResumes(w, t, due)

SpecRate == Init /\ [][NextRate]_vars

\* The producer's loop goes round at least every 0.1 s (line 490) and the
\* control interval is 0.1 s of wall time (line 287): a producer that stays in
\* its loop gets to a control tick.
Pacing == \A w \in Threads : WF_vars(ProducerIdle(w, TRUE))

\* the producer with no episode: it takes samples and idles, its controller
\* due or not, while the operator connects and reconnects and drains the queue
\* with the posture keys
NextPace ==
  \/ Launch
  \/ KeyC
  \/ ConnectOpens(TRUE)
  \/ Handshake(TRUE)
  \/ JoinReturns
  \/ KeyS
  \/ KeyI
  \/ \E w \in Threads : WorkerExits(w)
  \/ \E w \in Threads, rate \in Rates \cup {NoRate}, due \in BOOLEAN :
       ProducerSample(w, rate, due, TRUE, TRUE)
  \/ \E w \in Threads, due \in BOOLEAN : ProducerIdle(w, due)

SpecPace == Init /\ [][NextPace]_vars /\ Pacing

\* ------------------------------------------- the answers of the device
\* a header in lower and in mixed case, lines with one of the two words
Answers ==
  {Answer(<<"timestamp", "flex">>), Answer(<<"TimeStamp", "FLEX">>),
   Answer(<<"timestamp", "pitch">>), Answer(<<"pitch", "FLEX">>)}

\* what the polls find, and what one more poll would have found
PollSeqs == [1..HandshakePolls + 1 -> {NoBytes, Raises} \cup Answers]

\* The operator connects again and again to a device that answers the
\* handshake or not, while the producer reads.
NextConnect ==
  \/ Launch
  \/ KeyC
  \/ \E opened \in BOOLEAN : ConnectOpens(opened)
  \/ \E found \in PollSeqs : HandshakeReads(found)
  \/ JoinReturns
  \/ \E w \in Threads : WorkerExits(w)
  \/ \E w \in Threads : WorkerBreaks(w)
  \/ \E w \in Threads : WorkerReads(w, TRUE, TRUE)

SpecConnect == Init /\ [][NextConnect]_vars

\* ------------------------------------------- the commands after the handshake
\* AUTO_RECAL, AUTO_YAWZERO, AUTO_ZERO (lines 30-32) switch the three commands
\* on; the source has them off, a build that wants the commands sets them.
AutoCommands == {"recal", "yawzero", "zero"}

\* connect_arduino lines 213-225: every command that is switched on is written;
\* the writes all return (TRUE) or one of them raises
commands_written(auto, failing) == auto \cap failing = {}

\* connect_arduino lines 208-233 with the commands `auto` switched on: a write
\* that raises is caught at line 231 and connect returns False, as it does for
\* a failed handshake
ConnectSends(ok, auto, failing) ==
  /\ Connects(ok /\ commands_written(auto, failing))
  /\ UNCHANGED <<response, polls>>

\* The operator connects again and again, the handshake and the writes of the
\* commands succeeding or not, opens episodes and drains the queue, while the
\* producer reads; every file write succeeds.
NextSend ==
  \/ Launch
  \/ KeyC
  \/ \E opened \in BOOLEAN : ConnectOpens(opened)
  \/ \E ok \in BOOLEAN, auto, failing \in SUBSET AutoCommands :
       ConnectSends(ok, auto, failing)
  \/ JoinReturns
  \/ KeyN(TRUE, TRUE)
  \/ \E c \in Classes : ClassInput(c, TRUE, TRUE)
  \/ \E t \in Inputs : TypeInput(t)
  \/ KeyS
  \/ KeyI
  \/ \E w \in Threads, t \in Inputs : WorkerInput(w, t)
  \/ \E w \in Threads : WorkerExits(w)
  \/ \E w \in Threads : WorkerBreaks(w)
  \/ \E w \in Threads : WorkerReads(w, TRUE, TRUE)

SpecSend == Init /\ [][NextSend]_vars

\* ------------------------------------------- a finalization, interleaved
\* The operator connects, once, opens an episode and ends it with key 'm'
\* while the producer takes readings; every file write succeeds.
NextFinalize ==
  \/ Launch
  \/ KeyC /\ serial_thread = 0
  \/ ConnectOpens(TRUE)
  \/ Handshake(TRUE)
  \/ KeyN(TRUE, TRUE) /\ ~collecting
  \/ \E c \in Classes : ClassInput(c, TRUE, TRUE)
  \/ \E t \in Types : TypeInput(t)
  \/ \E w \in Threads : ProducerTests(w)
  \/ \E w \in Threads : ProducerAppends(w, TRUE, TRUE)
  \/ \E w \in Threads, t \in Types : WorkerInput(w, t)
  \/ StopBegins
  \/ StopWritesH5
  \/ StopWritesCsv
  \/ StopCounts

SpecFinalize == Init /\ [][NextFinalize]_vars

\* ------------------------------------------- a start, statement by statement
\* The start of an episode in the main thread sets the recorder's fields and
\* empties the queue afterwards; the producer runs in between. The producer
\* may read one line more than an episode holds, so that a start can find an
\* episode the producer has chained.
MaxStartLines == 4

\* start_episode lines 563-572: the fields of the new episode
Opened(c, choice) ==
  /\ current_episode_type' = choice
  /\ current_class' = c
  /\ episode_data' = <<>>
  /\ collecting' = TRUE
  /\ collection_stats' = Touch(collection_stats, c, {choice})

\* a start that leaves the queue as it is
DrainedNothing(q) == q

\* start_episode lines 575-579: get_nowait until the queue is empty
Drained(q) == <<>>

\* start_episode in the main thread from the answer to its prompt to
\* `self.sample_count = 0` (lines 558-572), when the answer starts an episode
StartSets(choice) ==
  /\ running /\ mainpc = "type_select"
  /\ StartChoice(main_class, choice) = "start"
  /\ Opened(main_class, choice)
  /\ mainpc' = "drain"
  /\ UNCHANGED <<auxvars, running, launched, main_class, serial_open, stop_event,
                 serial_thread, worker, worker_class, data_queue, total_samples,
                 dropped_samples, max_queue_usage, initial_posture_reference,
                 stats_flat, session_stats, diskvars, cache_read, now, nlines>>

\* start_episode lines 575-585: the queue is emptied and the start returns
StartDrains ==
  /\ running /\ mainpc = "drain"
  /\ data_queue' = Drained(data_queue)
  /\ mainpc' = "keys"
  /\ main_class' = None
  /\ UNCHANGED <<auxvars, running, launched, serial_open, stop_event, serial_thread,
                 worker, worker_class, total_samples, dropped_samples,
                 max_queue_usage, collecting, current_class, current_episode_type,
                 episode_data, initial_posture_reference, collection_stats,
                 stats_flat, session_stats, diskvars, cache_read, now, nlines>>

\* an iteration of the producer that takes a reading
ProducerReads(w, h5ok, csvok) ==
  /\ nlines < MaxStartLines
  /\ ReadingTaken(w, h5ok, csvok)
  /\ UNCHANGED auxvars

NextStart ==
  \/ Launch
  \/ KeyC /\ serial_thread = 0
  \/ ConnectOpens(TRUE)
  \/ Handshake(TRUE)
  \/ \E h5ok, csvok \in BOOLEAN : KeyN(h5ok, csvok)
  \/ \E c \in Classes, h5ok, csvok \in BOOLEAN : ClassInput(c, h5ok, csvok)
  \/ \E t \in Inputs : TypeInput(t) /\ StartChoice(main_class, t) # "start"
  \/ \E t \in Types : StartSets(t)
  \/ StartDrains
  \/ \E w \in Threads, h5ok, csvok \in BOOLEAN : ProducerReads(w, h5ok, csvok)
  \/ \E w \in Threads, t \in Inputs : WorkerInput(w, t)

SpecStart == Init /\ [][NextStart]_vars

\* ------------------------------------------- two threads in stop_episode
\* The operator connects, once, opens episodes and ends them with key 'm',
\* whose stop_episode is followed from its test of collecting to its end,
\* while the producer takes readings and ends episodes at the threshold; every
\* file write succeeds.
NextOnce ==
  \/ Launch
  \/ KeyC /\ serial_thread = 0
  \/ ConnectOpens(TRUE)
  \/ Handshake(TRUE)
  \/ KeyN(TRUE, TRUE) /\ ~collecting
  \/ \E c \in Classes : ClassInput(c, TRUE, TRUE)
  \/ \E t \in Types : TypeInput(t)
  \/ \E w \in Threads : WorkerReads(w, TRUE, TRUE)
  \/ \E w \in Threads, t \in Types : WorkerInput(w, t)
  \/ StopTests
  \/ StopSaves(TRUE, TRUE)

SpecOnce == Init /\ [][NextOnce]_vars

\* ------------------------------------------------------ progress reports
\* the five episode types of __init__ (lines 120-126) and the quota of line
\* 128 as the program sets them: the literal targets of the reports are
\* compared with these, not with the smaller sizes the episodes above run with
episode_types == {"1", "2", "3", "4", "5"}
EpisodesPerType == 12

\* `target = 12` of show_class_selection (line 511)
SelectionTarget == 12
\* `target = 25` of stop_episode (line 608)
SummaryTarget == 25
\* len(self.episode_types) * self.episodes_per_type (line 740, auto_collect 47)
class_target(types, quota) == Cardinality(types) * quota

\* what a report prints for a class: the collected count against its target,
\* the remaining count, and whether the class is marked complete
Report(view, current, target) ==
  <<[view |-> view, current |-> current, target |-> target,
     remaining |-> Max(0, target - current), complete |-> current >= target]>>

\* a report is printed and nothing else changes
ReportFrame ==
  UNCHANGED <<running, launched, memvars, diskvars, cache_read, now, nlines,
              linevars, ratevars, handvars, racevars>>

\* show_class_selection, the entry of class c (lines 508-519)
show_class_selection(c) ==
  /\ running
  /\ shown' = Report("selection", ClassTotal(collection_stats, c), SelectionTarget)
  /\ ReportFrame

\* stop_episode, the summary of the class of the episode (lines 606-621)
stop_summary(c) ==
  /\ running
  /\ shown' = Report("summary", ClassTotal(collection_stats, c), SummaryTarget)
  /\ ReportFrame

\* show_current_progress, the line of class c (lines 725-745)
show_current_progress(c) ==
  /\ running
  /\ shown' = Report("progress", ClassTotal(collection_stats, c),
                     class_target(episode_types, EpisodesPerType))
  /\ ReportFrame

\* auto_collect main(), the check before a class is collected (lines 46-53)
auto_collect(c) ==
  /\ running
  /\ shown' = Report("auto", ClassTotal(collection_stats, c),
                     class_target(episode_types, EpisodesPerType))
  /\ ReportFrame

\* the counts of a class, one per episode type and none above the quota; the
\* reports do not tell the types apart, so the counts are drawn in
\* non-increasing order
QuotaCounts ==
  {f \in [episode_types -> 0..EpisodesPerType] :
     f["1"] >= f["2"] /\ f["2"] >= f["3"] /\ f["3"] >= f["4"] /\ f["4"] >= f["5"]}

\* a collector that has loaded some counts of class A, and no report yet
InitReport ==
  /\ running = TRUE
  /\ launched = TRUE
  /\ mainpc = "keys"
  /\ main_class = None
  /\ serial_open = FALSE
  /\ stop_event = FALSE
  /\ serial_thread = 0
  /\ worker = [w \in Threads |-> "dead"]
  /\ worker_class = [w \in Threads |-> None]
  /\ data_queue = <<>>
  /\ total_samples = 0
  /\ dropped_samples = 0
  /\ max_queue_usage = 0
  /\ collecting = FALSE
  /\ current_class = None
  /\ current_episode_type = None
  /\ episode_data = <<>>
  /\ initial_posture_reference = NoReading
  /\ \E f \in QuotaCounts : collection_stats = [c \in Classes |-> f]
  /\ stats_flat = FALSE
  /\ session_stats = [c \in Classes |-> 0]
  /\ h5_files = NoFiles
  /\ csv_files = NoFiles
  /\ progress_file = ProgressData(collection_stats, session_stats)
  /\ cache_read = progress_file
  /\ now = 0
  /\ nlines = 0
  /\ raw = NoLine
  /\ last_arduino_ms = Absent
  /\ prev_reading = Absent
  /\ sample_rate_history = <<>>
  /\ current_sleep_time = MIN_SLEEP_TIME
  /\ response = Absent
  /\ polls = <<>>
  /\ connect_result = "none"
  /\ pending = Absent
  /\ h5_rows = <<>>
  /\ shown = NoReport

NextReport ==
  \/ \E c \in Classes : show_class_selection(c)
  \/ \E c \in Classes : stop_summary(c)
  \/ \E c \in Classes : show_current_progress(c)
  \/ \E c \in Classes : auto_collect(c)

SpecReport == InitReport /\ [][NextReport]_vars

\* ------------------------------------------- the load, over many disks
\* the program is started on what earlier runs left: up to MaxOldFiles files
\* of each format for (A, 1), maybe an episode of (A, 2), and a progress file
\* that may be missing, unreadable, stale or right
InitLoad ==
  /\ NotRunning
  /\ \E i, j \in 0..MaxOldFiles, k \in 0..1 :
       /\ h5_files = Both(OldFiles("A", "1", i), OldFiles("A", "2", k))
       /\ csv_files = Both(OldFiles("A", "1", j), OldFiles("A", "2", k))
  /\ progress_file \in OldCaches

NextLoad ==
  \/ Launch
  \/ \E h5ok, csvok \in BOOLEAN : KeyQ(h5ok, csvok)

SpecLoad == InitLoad /\ [][NextLoad]_vars

\* ------------------------------------------------------------- properties
\* the completed count the recorder holds for (c, t); a key of the map a
\* reset leaves holds the int 0
Completed(c, t) == IF stats_flat THEN 0 ELSE Count(collection_stats, c, t)

\* the name stop_episode gives both files of the open episode
EpisodeFile == FileName(now, current_class, current_episode_type)

\* a step in which stop_episode runs on an open episode with readings in its
\* buffer and the recorder object is there afterwards to be looked at: key 'm',
\* key 'n', the stop at the head of start_episode, or the producer reaching
\* the threshold
Finalize(h5ok, csvok) ==
  /\ collecting
  /\ \/ /\ episode_data # <<>>
        /\ \/ KeyM(h5ok, csvok)
           \/ KeyN(h5ok, csvok)
           \/ \E c \in Classes : ClassInput(c, h5ok, csvok)
     \/ /\ Len(episode_data) + 1 >= samples_per_episode
        /\ \E w \in Threads : WorkerReads(w, h5ok, csvok)

\* the readings stop_episode persists in a Finalize step
Finalized == IF nlines' = nlines THEN episode_data ELSE Append(episode_data, nlines')

C2_RecordingKeepsEveryReading ==
  [][(nlines' = nlines + 1 /\ collecting) =>
        episode_data' = Append(episode_data, nlines')]_vars

\* the newest reading was dropped by the full queue and is in the buffer
C2_Witness ==
  /\ dropped_samples >= 1
  /\ Len(data_queue) = QueueMaxsize
  /\ \A i \in 1..Len(data_queue) : data_queue[i] # nlines
  /\ episode_data # <<>>
  /\ episode_data[Len(episode_data)] = nlines

C4_AutoChainImmediate ==
  [][(/\ nlines' = nlines + 1
      /\ collecting
      /\ Len(episode_data) + 1 >= samples_per_episode
      /\ Completed(current_class, current_episode_type)' =
           Completed(current_class, current_episode_type) + 1) =>
        IF Completed(current_class, current_episode_type)' < episodes_per_type
        THEN /\ collecting'
             /\ episode_data' = <<>>
             /\ current_class' = current_class
             /\ current_episode_type' = current_episode_type
        ELSE ~collecting']_vars

\* C5: a start that finds the port closed, or the count of its pair at or
\* above episodes_per_type, opens no episode and leaves current_class,
\* current_episode_type, episode_data and data_queue as they were: no start
\* made while the port is closed or the quota is reached opens an episode
C5_RejectedStartChangesNothing ==
  [][/\ \A c \in Classes, h5ok, csvok \in BOOLEAN :
          (~serial_open /\ ClassInput(c, h5ok, csvok) /\ running') =>
             /\ ~collecting'
             /\ UNCHANGED <<current_class, current_episode_type, episode_data,
                            data_queue>>
     /\ \A t \in Types :
          (/\ \/ ~serial_open
              \/ ~stats_flat /\ Count(collection_stats, main_class, t) >= episodes_per_type
           /\ TypeInput(t)
           /\ running') =>
             UNCHANGED <<collecting, current_class, current_episode_type,
                         episode_data, data_queue>>
     /\ \A w \in Threads, t \in Types :
          (/\ \/ ~serial_open
              \/ ~stats_flat /\ Count(collection_stats, worker_class[w], t) >= episodes_per_type
           /\ WorkerInput(w, t)) =>
             UNCHANGED <<collecting, current_class, current_episode_type,
                         episode_data, data_queue>>]_vars

\* C6: a stop_episode on an open episode with readings adds exactly 1 to the
\* count of its (class, type) and to the session count of its class, changes
\* no other count and leaves the recorder idle
C6_FinalizeCountsOnce ==
  [][\A h5ok, csvok \in BOOLEAN :
       Finalize(h5ok, csvok) =>
         /\ running'
         /\ ~collecting'
         /\ \A c \in Classes, t \in Types :
              Completed(c, t)' = Completed(c, t) +
                (IF c = current_class /\ t = current_episode_type THEN 1 ELSE 0)
         /\ \A c \in Classes :
              session_stats'[c] = session_stats[c] +
                (IF c = current_class THEN 1 ELSE 0)]_vars

\* C7 as stated: key 'm' with no episode open, or with an open episode whose
\* buffer is empty, changes neither collecting nor the buffer, the counts or
\* the files
C7_StopIsNoOp ==
  [][\A h5ok, csvok \in BOOLEAN :
       ((~collecting \/ episode_data = <<>>) /\ KeyM(h5ok, csvok)) =>
          UNCHANGED <<collecting, episode_data, collection_stats, session_stats,
                      h5_files, csv_files, progress_file>>]_vars

\* C7: key 'm' with no episode open, or with an open episode whose buffer is
\* empty, leaves the buffer, the counts and the files as they were and the
\* recorder idle: the open episode with the empty buffer is closed
C7_StopOnEmptyOnlyCloses ==
  [][\A h5ok, csvok \in BOOLEAN :
       ((~collecting \/ episode_data = <<>>) /\ KeyM(h5ok, csvok)) =>
          /\ ~collecting'
          /\ UNCHANGED <<episode_data, collection_stats, session_stats,
                         h5_files, csv_files, progress_file>>]_vars

\* an episode was opened and closed again before any reading reached it
C7_Witness ==
  /\ running
  /\ mainpc = "keys"
  /\ ~collecting
  /\ current_class # None
  /\ episode_data = <<>>

\* C8: when one of the two files cannot be written the stop still writes the
\* other one, still counts the episode, and leaves the recorder idle
C8_WriteFailureIsContained ==
  [][\A h5ok, csvok \in BOOLEAN :
       (~(h5ok /\ csvok) /\ Finalize(h5ok, csvok)) =>
         /\ running'
         /\ ~collecting'
         /\ h5ok => (EpisodeFile \in DOMAIN h5_files' /\ h5_files'[EpisodeFile] = Finalized)
         /\ csvok => (EpisodeFile \in DOMAIN csv_files' /\ csv_files'[EpisodeFile] = Finalized)
         /\ Completed(current_class, current_episode_type)' =
              Completed(current_class, current_episode_type) + 1]_vars

\* C9: after the load of a progress file that is absent or readable, the
\* count of every (class, type) is the larger of the numbers of its .h5 and
\* its .csv files, and a scan that differs from the cached map is in the
\* progress file
C9_LoadCountsFiles ==
  [][(Launch /\ progress_file.kind # "corrupt") =>
        /\ \A c \in Classes, t \in Types :
             Completed(c, t)' = Max(Cardinality(FilesOf(h5_files, c, t)),
                                    Cardinality(FilesOf(csv_files, c, t)))
        /\ collection_stats' # cached_stats(progress_file) =>
             /\ progress_file'.kind = "valid"
             /\ progress_file'.collection_stats = collection_stats']_vars

\* a load found a cache with another count for (A, 1) than the files give,
\* the two formats differing in number, and the file now holds the scan
C9_Witness ==
  /\ running
  /\ cache_read.kind = "valid"
  /\ Cardinality(FilesOf(h5_files, "A", "1")) > Cardinality(FilesOf(csv_files, "A", "1"))
  /\ Count(cache_read.collection_stats, "A", "1") > Cardinality(FilesOf(h5_files, "A", "1"))
  /\ Completed("A", "1") = Cardinality(FilesOf(h5_files, "A", "1"))
  /\ progress_file.collection_stats = collection_stats

\* C10: after the load of a progress file that cannot be read, the count of
\* every (class, type) is the larger of the numbers of its .h5 and its .csv
\* files
C10_UnreadableCacheStillScans ==
  (running /\ cache_read.kind = "corrupt") =>
    \A c \in Classes, t \in Types :
      Completed(c, t) = Max(Cardinality(FilesOf(h5_files, c, t)),
                            Cardinality(FilesOf(csv_files, c, t)))

\* the larger of the numbers of .h5 and .csv files in the directory of (c, t)
FilesOnDisk(c, t) ==
  Max(Cardinality(FilesOf(h5_files, c, t)), Cardinality(FilesOf(csv_files, c, t)))

\* C11: while the collector runs and no reset has been confirmed, the count
\* of every (class, type) is the larger of the numbers of its .h5 and its
\* .csv files on disk: every counted episode has files of its own
C11_CountsMatchDisk ==
  (running /\ ~stats_flat) =>
    \A c \in Classes, t \in Types : Completed(c, t) = FilesOnDisk(c, t)

\* C12: a confirmed reset leaves no episode file of either format under the
\* data directory, the per-class and per-type directories included, and
\* every completed count and every session count at zero
C12_ResetRemovesEverything ==
  [][Confirm(TRUE) =>
       /\ h5_files' = NoFiles
       /\ csv_files' = NoFiles
       /\ \A c \in Classes, t \in Types : Completed(c, t)' = 0
       /\ \A c \in Classes : session_stats'[c] = 0]_vars

\* C13: key 'd' up to its prompt, and a reset that is answered 'n', delete no
\* file and leave the completed counts, the session counts and the progress
\* file as they were
C13_UnconfirmedResetChangesNothing ==
  [][(KeyD \/ Confirm(FALSE)) =>
       UNCHANGED <<h5_files, csv_files, collection_stats, session_stats,
                   progress_file>>]_vars

\* the reset waits for its answer with an episode of this session counted
\* and its files on disk
C13_Witness ==
  /\ mainpc = "confirm"
  /\ ~stats_flat
  /\ session_stats["A"] >= 1
  /\ \E t \in Types : Completed("A", t) >= 1 /\ FilesOf(h5_files, "A", t) # {}
  /\ progress_file.kind = "valid"

\* ------------------------------------------------------------ the parser
\* a step of the producer that reads a line
LineRead == \E w \in Threads, line \in Lines : ProducerLine(w, line, TRUE, TRUE)

\* the step has built a Reading and handed it on
ReadingMade == nlines' = nlines + 1

\* the number a field's text stands for, counted in halves
Denotes(f) == IF f.k = "int" THEN 2 * f.v ELSE 2 * f.v + 1
IsNumber(f) == f.k \in {"int", "dec"}

\* C14: a Reading is made only of a line of exactly 12 fields that is neither
\* empty nor a comment; its timestamp is field 1, pitch, roll, yaw are fields
\* 2-4, the acceleration is fields 5-7 and flex1..flex5 are fields 8-12, each
\* the number its field stands for; a line of another field count, an empty
\* line and a comment make no Reading
C14_TwelveFieldsInOrder ==
  [][LineRead =>
       LET p == raw'.parts
           r == prev_reading'[1]
           angles == <<r.pitch, r.roll, r.yaw, r.accel_x, r.accel_y, r.accel_z>>
           flex == <<r.flex1, r.flex2, r.flex3, r.flex4, r.flex5>>
       IN /\ ReadingMade =>
               /\ Len(p) = 12 /\ raw' # EmptyLine /\ raw'.prefix # "#"
               /\ prev_reading' # Absent
               /\ p[1].k = "int" => r.timestamp_ms = p[1].v
               /\ \A i \in 1..6 :
                    IsNumber(p[i + 1]) => angles[i] = Float(Denotes(p[i + 1]))
               /\ \A i \in 1..5 : p[i + 7].k = "int" /\ flex[i] = p[i + 7].v
          /\ (Len(p) # 12 \/ raw' = EmptyLine \/ raw'.prefix = "#") =>
               /\ ~ReadingMade
               /\ UNCHANGED <<prev_reading, data_queue, episode_data>>]_vars

\* a good line has been read with an episode open, and its Reading carries
\* the twelve numbers of the line
C14_Witness ==
  /\ raw = Line(GoodParts(110))
  /\ collecting /\ Len(episode_data) >= 1 /\ Len(data_queue) >= 1
  /\ prev_reading # Absent
  /\ prev_reading[1].timestamp_ms = 110
  /\ prev_reading[1].roll = Float(6) /\ prev_reading[1].yaw = Float(8)
  /\ prev_reading[1].flex1 = 8 /\ prev_reading[1].flex5 = 12

\* a line that is not a reading: the field count is wrong, or a field is not a
\* number of its type (the timestamp an integer, fields 2-7 floats, fields
\* 8-12 integers)
Malformed(line) ==
  /\ line.prefix = "" /\ line # EmptyLine
  /\ \/ Len(line.parts) # 12
     \/ TimestampRaises(line.parts) # "nothing"
     \/ ReadingRaises(line.parts)

\* C15: a malformed line enqueues no Reading and appends none to the episode,
\* and the producer stays in its loop
C15_MalformedLineIsDropped ==
  [][(LineRead /\ Malformed(raw')) =>
       /\ ~ReadingMade
       /\ UNCHANGED <<data_queue, episode_data>>
       /\ worker' = worker]_vars

\* C16: the sampling_hz of a Reading is 1000 / max(1, ts - last_ts), last_ts
\* being the timestamp of the Reading accepted before it, and 0 for the first
\* Reading of a stream; it lies between 0 and 1000
C16_RateFromLastAcceptedReading ==
  [][(LineRead /\ ReadingMade) =>
       LET r == prev_reading'[1]
           hz == r.sampling_hz
       IN /\ hz = IF prev_reading = Absent
                  THEN [num |-> 0, den |-> 1]
                  ELSE [num |-> 1000,
                        den |-> Max(1, r.timestamp_ms - prev_reading[1].timestamp_ms)]
          /\ 0 <= hz.num /\ hz.num <= 1000 * hz.den]_vars

\* ---------------------------------------------------- the rate controller
\* the end of a producer iteration at which the control interval has passed
ControlTick ==
  \E w \in Threads :
    /\ worker'[w] = "loop"
    /\ \/ ProducerIdle(w, TRUE)
       \/ \E rate \in Rates \cup {NoRate} : ProducerSample(w, rate, TRUE, TRUE, TRUE)
       \/ \E t \in Types : ProducerResumes(w, t, TRUE)

\* C17: on a control tick the controller takes the mean of the most recent
\* min(RateMeanOver, n) rates; above target + tolerance the pause becomes
\* min(upper bound, pause x 1.1), below target - tolerance it becomes
\* max(minimum, pause x 0.9), within the tolerance or with no rate recorded it
\* is unchanged; nothing but a control tick changes the pause
C17_ControllerRule ==
  [][/\ ControlTick =>
          LET h == sample_rate_history'
              n == Len(h)
              k == Min(RateMeanOver, n)
              recent == [i \in 1..k |-> h[n - k + i]]
              pause == current_sleep_time
          IN current_sleep_time' =
               IF n = 0 THEN pause
               ELSE IF Sum(recent) > (TARGET_SAMPLING_RATE + SAMPLING_RATE_TOLERANCE) * k
               THEN Min(MaxSleepTime, (pause * 11) \div 10)
               ELSE IF Sum(recent) < (TARGET_SAMPLING_RATE - SAMPLING_RATE_TOLERANCE) * k
               THEN Max(MIN_SLEEP_TIME, (pause * 9) \div 10)
               ELSE pause
     /\ (running /\ running' /\ current_sleep_time' # current_sleep_time) => ControlTick]_vars

\* the pause has been raised to its upper bound, on the mean of the last
\* RateMeanOver rates of a full window
C17_Witness ==
  /\ current_sleep_time = MaxSleepTime
  /\ Len(sample_rate_history) = RateWindow
  /\ Sum(LastN(sample_rate_history, RateMeanOver)) >
       (TARGET_SAMPLING_RATE + SAMPLING_RATE_TOLERANCE) * RateMeanOver

\* ------------------------------------------------------ queue statistics
\* C18: while the process lives, total_samples, dropped_samples and the peak
\* occupancy never decrease, whatever is offered, drained or started; the peak
\* occupancy is between 0 and the whole capacity (a ratio in [0, 1]); the rate
\* window never holds more than RateWindow entries
C18_StatisticsNeverDecrease ==
  /\ [](/\ 0 <= max_queue_usage /\ max_queue_usage <= QueueMaxsize
        /\ Len(sample_rate_history) <= RateWindow)
  /\ [][(running /\ running') =>
          /\ total_samples' >= total_samples
          /\ dropped_samples' >= dropped_samples
          /\ max_queue_usage' >= max_queue_usage]_vars

\* the queue has been full, a reading has been dropped, the queue has been
\* drained since, and the window has been trimmed
C18_Witness ==
  /\ running
  /\ max_queue_usage = QueueMaxsize /\ dropped_samples >= 1
  /\ data_queue = <<>>
  /\ Len(sample_rate_history) = RateWindow
  /\ total_samples = RateWindow + 2

\* C19: total_samples counts the readings enqueued: an offer that enqueues
\* adds one to it, an offer on a full queue adds one to dropped_samples and
\* nothing to total_samples, and no other step of the process changes it
C19_TotalCountsEnqueued ==
  [][(running /\ running') =>
       IF ReadingMade
       THEN /\ total_samples' = total_samples + (IF QueueFull(data_queue) THEN 0 ELSE 1)
            /\ dropped_samples' = dropped_samples + (IF QueueFull(data_queue) THEN 1 ELSE 0)
       ELSE UNCHANGED <<total_samples, dropped_samples>>]_vars

\* ------------------------------------------------------------- handshake
\* the step has started a producer thread
ThreadStarted == \E w \in Threads : worker[w] = "dead" /\ worker'[w] = "loop"

\* connect_arduino has gone on to start_data_reception
Succeeded == mainpc' = "join" \/ ThreadStarted

\* both markers, in any case, are among the words
BothMarkers(words) ==
  /\ \E i \in 1..Len(words) : words[i] \in {"timestamp", "TimeStamp"}
  /\ \E i \in 1..Len(words) : words[i] \in {"flex", "FLEX"}

\* C20: connect goes on to start the producer exactly when one of the
\* HandshakePolls polls reads a line with both 'timestamp' and 'flex' in it, in
\* any case, no poll before it having raised; otherwise it fails; and a
\* producer thread is started only when the handshake read last ended on such
\* a line
C20_ConnectNeedsHeader ==
  /\ [][(mainpc = "handshake" /\ mainpc' # "handshake") =>
          (Succeeded <=>
             \E i \in 1..HandshakePolls :
               /\ polls'[i].k = "line" /\ BothMarkers(polls'[i].words)
               /\ \A j \in 1..(i - 1) : polls'[j] # Raises)]_vars
  /\ [][ThreadStarted => (response' # Absent /\ BothMarkers(response'[1]))]_vars

\* a producer runs after a handshake that read a line without the markers and
\* then the header in mixed case
C20_Witness ==
  /\ mainpc = "keys" /\ serial_open
  /\ serial_thread # 0 /\ worker[serial_thread] = "loop"
  /\ polls # <<>>
  /\ polls[1] = NoBytes /\ polls[2] = Answer(<<"pitch", "FLEX">>)
  /\ polls[3] = Answer(<<"TimeStamp", "FLEX">>)
  /\ response = <<(<<"TimeStamp", "FLEX">>)>>

\* ------------------------------------------------- the episode being saved
\* C21: an episode does not change once its finalization has begun: the
\* structured file holds the readings the buffer held when the finalization
\* began, its num_samples is their number, and the CSV file holds the same
\* readings
C21_EpisodeFrozenAtFinalize ==
  [][/\ StopWritesH5 => num_samples = Len(h5_rows)
     /\ StopWritesCsv =>
          csv_files'[EpisodeFile] = h5_files[EpisodeFile]]_vars

\* --------------------------------------------------- the reading handed out
\* C22: the reading handed out as the posture reference (key 's') or for the
\* posture check (key 'i') is the last reading the producer made, and taking
\* it leaves the queue as it was
C22_LatestReadingReadOnly ==
  [][/\ KeyS => initial_posture_reference' = nlines /\ data_queue' = data_queue
     /\ KeyI => Head(data_queue) = nlines /\ data_queue' = data_queue]_vars

\* ------------------------------------------------------ the producer threads
\* the producer threads that are reading the port: in their loop, not ended
\* and not waiting in a prompt
Producing == {w \in Threads : worker[w] \in {"loop", "append"}}

\* C23: at most one producer thread is reading the port and feeding the queue
\* at any time, whatever was connected, reconnected or shut down before
C23_SingleProducer == Cardinality(Producing) <= 1

\* C24: the producer never waits for the operator: a producer that is not at
\* the top of its loop, also one whose episode has just reached the threshold
\* and was chained, gets back there (or ends) by itself
C24_ProducerNeverWaits ==
  \A w \in Threads : (worker[w] = "input") ~> (worker[w] \in {"loop", "dead"})

\* a producer that was asked to stop and outlived the join: another thread has
\* been started in its place
Replaced(w) == w # serial_thread /\ worker[w] # "dead"

\* C25: a producer that was asked to stop does not keep running once the
\* join is over and the caller has gone on: it never gets back to its loop
C25_StoppedProducerEnds ==
  [][\A w \in Threads : Replaced(w) => worker'[w] # "loop"]_vars

\* a connect is under way: connect_arduino has closed the port (line 196) and
\* has not yet returned
Connecting == mainpc \in {"open", "handshake", "join"}

\* C26: a closed port ends the producer: from the moment connect has closed
\* the port until it has started a new producer no reading is queued or
\* buffered, and a producer that finds the port closed ends
C26_ClosedPortEndsProducer ==
  [][/\ ReadingMade => ~Connecting
     /\ \A w \in Threads :
          (~serial_open /\ worker[w] = "loop" /\ worker'[w] # "loop")
             => worker'[w] = "dead"]_vars

\* ------------------------------------------------------ the start of an episode
\* start_episode is called, from the class selection, while an episode is open
\* with readings in its buffer
StartOnOpen(c, h5ok, csvok) ==
  /\ collecting /\ episode_data # <<>>
  /\ ClassInput(c, h5ok, csvok)

\* C27: a start made while an episode is open with readings first finalizes
\* that episode: its readings are written under its own class and type and
\* counted once for that pair, the recorder is idle, and nothing of the new
\* episode (class, type, buffer) has been set when that is done
C27_StartFinalizesOpenEpisode ==
  [][\A c \in Classes, h5ok, csvok \in BOOLEAN :
       StartOnOpen(c, h5ok, csvok) =>
         /\ running'
         /\ ~collecting'
         /\ EpisodeFile \in DOMAIN h5_files'
         /\ h5_files'[EpisodeFile] = episode_data
         /\ \A k \in Classes, t \in Types :
              Completed(k, t)' = Completed(k, t) +
                (IF k = current_class /\ t = current_episode_type THEN 1 ELSE 0)
         /\ UNCHANGED <<current_class, current_episode_type, episode_data>>]_vars

\* C28: when the recorder becomes Recording its buffer is empty, and when the
\* start returns the queue holds none of the readings queued before
C28_StartClearsQueueAndBuffer ==
  [][/\ (~collecting /\ collecting') => episode_data' = <<>>
     /\ \A t \in Types : StartSets(t) => (collecting' /\ episode_data' = <<>>)
     /\ StartDrains => data_queue' = <<>>
     /\ \A w \in Threads, t \in Types :
          (WorkerInput(w, t) /\ StartChoice(worker_class[w], t) = "start")
             => (collecting' /\ episode_data' = <<>> /\ data_queue' = <<>>)]_vars

\* a start has returned: the reading the producer took between the two halves
\* of the start is in the buffer, and the queue, which had been offered the
\* readings before it, was emptied after it
C28_Witness ==
  /\ collecting /\ mainpc = "keys"
  /\ nlines >= 2
  /\ data_queue = <<>>
  /\ episode_data = <<nlines>>

\* ------------------------------------------------------ the pause, in the long run
\* the mean the controller takes (lines 291-292) is above the tolerated band
TooFast ==
  /\ sample_rate_history # <<>>
  /\ Sum(LastN(sample_rate_history, RateMeanOver)) >
       (TARGET_SAMPLING_RATE + SAMPLING_RATE_TOLERANCE)
          * Min(RateMeanOver, Len(sample_rate_history))

\* the mean is below the tolerated band
TooSlow ==
  /\ sample_rate_history # <<>>
  /\ Sum(LastN(sample_rate_history, RateMeanOver)) <
       (TARGET_SAMPLING_RATE - SAMPLING_RATE_TOLERANCE)
          * Min(RateMeanOver, Len(sample_rate_history))

\* a producer is going round its loop
Looping ==
  /\ running /\ ~stop_event /\ serial_open
  /\ \E w \in Threads : worker[w] = "loop"

\* C29: the pause is between its minimum and its upper bound in every state;
\* while a producer loops with the mean rate staying above the band the pause
\* gets to the upper bound and stays there, and with the mean staying below
\* the band it gets to the minimum and stays there
C29_PauseBoundedAndConverges ==
  /\ [](MIN_SLEEP_TIME <= current_sleep_time /\ current_sleep_time <= MaxSleepTime)
  /\ <>[](Looping /\ TooFast) => <>[](current_sleep_time = MaxSleepTime)
  /\ <>[](Looping /\ TooSlow) => <>[](current_sleep_time = MIN_SLEEP_TIME)

\* the pause has gone up to its upper bound under a mean above the band,
\* with a producer in its loop
C29_Witness ==
  /\ Looping /\ TooFast
  /\ current_sleep_time = MaxSleepTime

\* ------------------------------------------------- the commands after connect
\* C30: after a handshake that succeeded, connect goes on to start the
\* producer whichever of the commands recal, yawzero and zero are switched on
\* and whichever of their writes fail
C30_CommandFailureNotFatal ==
  [][\A auto, failing \in SUBSET AutoCommands :
       ConnectSends(TRUE, auto, failing) => Succeeded]_vars

\* ----------------------------------------------------- connect, tried again
\* C31: after a connect that failed (no port, the port not opening, no header)
\* the next connect to a device that is there and answers goes on to start the
\* producer, and when it has started it exactly one producer is in its loop
C31_RetryAfterFailedConnect ==
  [][connect_result = "failed" =>
       /\ Handshake(TRUE) => Succeeded
       /\ ThreadStarted => Cardinality(Producing') = 1]_vars

\* ------------------------------------------------ an episode, counted once
\* C32: an episode is finalized once: a step that raises the count of a pair
\* raises it by 1 and closes an episode that was open when the step began, so
\* a buffer that one thread has finalized is not written and counted again by
\* the other
C32_FinalizedOnce ==
  [][(running /\ running') =>
       \A c \in Classes, t \in Types :
         Completed(c, t)' > Completed(c, t) =>
           /\ Completed(c, t)' = Completed(c, t) + 1
           /\ collecting /\ ~collecting'
           /\ c = current_class /\ t = current_episode_type]_vars

\* ------------------------------------------------------------- the quota
\* C33: while the process lives, the count of a pair that is at or below
\* episodes_per_type is at or below it after every step of either thread
C33_CountWithinQuota ==
  [][(running /\ running') =>
       \A c \in Classes, t \in Types :
         Completed(c, t) <= episodes_per_type =>
           Completed(c, t)' <= episodes_per_type]_vars

\* ------------------------------------------------------- idle after a stop
\* C34: once the stop_episode of key 'm' has returned and left the recorder
\* idle, no step of the producer adds a reading to the buffer
C34_IdleAfterStop ==
  [][\A w \in Threads :
       (mainpc = "keys" /\ ~collecting /\ ProducerAppends(w, TRUE, TRUE))
          => episode_data' = episode_data]_vars

\* ------------------------------------------------ start after a failed connect
\* C35: while the last connect_arduino has returned False, the recorder does
\* not enter an episode unless a producer is running
C35_FailedConnectRejectsStart ==
  [][connect_result = "failed" =>
       ((~collecting /\ collecting') => Producing' # {})]_vars

\* ------------------------------------------------------ the map after a reset
\* C36: after a confirmed reset, with every write succeeding, key 'n' reaches
\* the class selection, a start and key 'm' leave the program running, and a
\* finalize leaves the pair of the episode at 1
C36_ResetLeavesNestedMap ==
  [][(running /\ stats_flat) =>
       /\ KeyN(TRUE, TRUE) => mainpc' = "class_select"
       /\ (\/ \E c \in Classes : ClassInput(c, TRUE, TRUE)
           \/ \E t \in Types : TypeInput(t)
           \/ KeyM(TRUE, TRUE)) => running'
       /\ (collecting /\ ~collecting' /\ HasData(episode_data)) =>
             Completed(current_class, current_episode_type)' = 1]_vars

\* ------------------------------------------------ the progress file and memory
\* the progress file holds the counts and the total of the map in memory
FileMatchesMemory ==
  /\ progress_file.kind = "valid"
  /\ \A c \in Classes, t \in Types :
        Count(progress_file.collection_stats, c, t) = Completed(c, t)
  /\ progress_file.total_episodes =
        (IF stats_flat THEN 0 ELSE GrandTotal(collection_stats))

\* a finalize that reached its increments (lines 602-604)
Counted ==
  /\ running /\ running'
  /\ \E c \in Classes, t \in Types : Completed(c, t)' = Completed(c, t) + 1

\* load_collection_progress found the scan and the cache different (871-875)
Reconciles ==
  /\ ~running /\ running'
  /\ progress_file.kind # "corrupt"
  /\ real_stats(h5_files, csv_files) # cached_stats(progress_file)

\* C37: after every finalize that counted, every load that reconciled and
\* every confirmed reset, the progress file holds the counts of the map in
\* memory and total_episodes is their sum
C37_ProgressFileMatchesMemory ==
  [][(Counted \/ Reconciles \/ Confirm(TRUE)) => FileMatchesMemory']_vars

\* an episode was finalized and counted after a load that reconciled
C37_Witness ==
  /\ running /\ ~stats_flat
  /\ Completed("A", "1") = 2
  /\ progress_file.total_episodes = 2
  /\ cache_read # progress_file

\* --------------------------------------------------- one target, every report
\* every type of class c has reached the quota
AllTypesAtQuota(c) ==
  \A t \in episode_types : Count(collection_stats, c, t) >= EpisodesPerType

\* C38: every report prints the target types x quota, and marks the class
\* complete, with nothing remaining, exactly when each of its types has
\* reached the quota
C38_OneTargetEverywhere ==
  shown # NoReport =>
    /\ shown[1].target = class_target(episode_types, EpisodesPerType)
    /\ shown[1].complete <=> AllTypesAtQuota("A")
    /\ shown[1].remaining = 0 <=> AllTypesAtQuota("A")
====
